---- MODULE Spec2Model ----
(***************************************************************************)
(* Model of the AKP (RIFF/APRG) chunk parser and of the two conversion     *)
(* entry points of rusty-samplers: run_conversion (src/src/main.rs) and    *)
(* convert_file (src/src/lib.rs).                                          *)
(*                                                                         *)
(* A file is a sequence of bytes (0..255).  The stream position is a       *)
(* natural number; a read of n bytes at position p succeeds exactly when   *)
(* p + n <= Len(file).  Option<T> is a sequence of length 0 (None) or       *)
(* 1 (Some).  Result<T, AkpError> is carried by an error record whose kind  *)
(* is "None" for Ok.                                                        *)
(***************************************************************************)
EXTENDS Integers, Sequences, FiniteSets, TLC

VARIABLES
    entry,          \* which entry point runs: "run_conversion" or "convert_file"
    format,         \* OutputFormat argument: "Sfz" or "DecentSampler"
    file,           \* the bytes of the input file
    pos,            \* stream position of the File handle
    pc,             \* control position inside the entry point
    program,        \* the AkaiProgram being filled in
    keygroup,       \* the local Keygroup of the running parse_keygroup call
    env_count,      \* parse_keygroup's env_count
    lfo_count,      \* parse_keygroup's lfo_count
    kgrp_end_pos,   \* end_pos argument of the running parse_keygroup call
    cursor,         \* chunk_data most recently buffered into a Cursor
    parse_err,      \* the AkpError raised by the parsing functions (kind "None" if none)
    result,         \* what the entry point returned: kind "Pending", "Ok" or "Err"
    written,        \* the output file written by fs::write (None or Some(lines))
    hdr_reads,      \* history: the calls of read_chunk_header, [at |-> offset, level |-> "top" or "kgrp"]
    kg_reads,       \* history: for the running parse_keygroup call, <<P, S, highest offset read + 1>>
    batch,          \* run_batch_conversion: its position, the directory and its locals
    app,            \* the GUI's RustySamplersApp
    channels,       \* the mpsc channels created by start_conversion, in creation order
    workers         \* the threads spawned by start_conversion, in creation order

vars == <<entry, format, file, pos, pc, program, keygroup, env_count, lfo_count,
          kgrp_end_pos, cursor, parse_err, result, written, hdr_reads, kg_reads,
          batch, app, channels, workers>>

----------------------------------------------------------------------------
(* Generic helpers *)

None == <<>>

Some(x) == <<x>>

IsSome(o) == Len(o) = 1

Min(a, b) == IF a < b THEN a ELSE b

Max(a, b) == IF a > b THEN a ELSE b

\* s[from .. from+n-1] with 0-based offset `from`, as a byte slice
Slice(s, from, n) == SubSeq(s, from + 1, from + n)

RECURSIVE Concat(_)
Concat(ss) == IF ss = <<>> THEN <<>> ELSE Head(ss) \o Concat(Tail(ss))

----------------------------------------------------------------------------
(* AkpError *)

Err(kind, name, reason, a, b) ==
    [kind |-> kind, name |-> name, reason |-> reason, a |-> a, b |-> b]

NoError == Err("None", "", "", 0, 0)

Io == Err("Io", "UnexpectedEof", "", 0, 0)

InvalidRiffHeader == Err("InvalidRiffHeader", "", "", 0, 0)

InvalidAprgSignature == Err("InvalidAprgSignature", "", "", 0, 0)

InvalidChunkSize(tag, size) == Err("InvalidChunkSize", tag, "", size, 0)

CorruptedChunk(tag, reason) == Err("CorruptedChunk", tag, reason, 0, 0)

InvalidKeyRange(lo, hi) == Err("InvalidKeyRange", "", "", lo, hi)

InvalidVelocityRange(lo, hi) == Err("InvalidVelocityRange", "", "", lo, hi)

MissingRequiredChunk(what) == Err("MissingRequiredChunk", what, "", 0, 0)

InvalidParameterValue(param, value) == Err("InvalidParameterValue", param, "", value, 0)

IsOk(e) == e.kind = "None"

----------------------------------------------------------------------------
(* Byte-level constants of the wire format (ASCII codes) *)

RIFF == <<82, 73, 70, 70>>

APRG == <<65, 80, 82, 71>>

TagPrg == <<112, 114, 103, 32>>

TagKgrp == <<107, 103, 114, 112>>

TagZone == <<122, 111, 110, 101>>

TagSmpl == <<115, 109, 112, 108>>

TagTune == <<116, 117, 110, 101>>

TagFilt == <<102, 105, 108, 116>>

TagEnv == <<101, 110, 118, 32>>

TagLfo == <<108, 102, 111, 32>>

TagMods == <<109, 111, 100, 115>>

\* "????", the id substituted when the tag bytes are not UTF-8
TagInvalid == <<63, 63, 63, 63>>

----------------------------------------------------------------------------
(* UTF-8 *)

IsCont(b) == b >= 128 /\ b <= 191

\* Number of bytes of the well-formed UTF-8 character at the head of s, 0 if none.
Utf8CharLen(s) ==
    LET n == Len(s)
        b == s[1]
        c2 == n >= 2 /\ IsCont(s[2])
        c3 == n >= 3 /\ IsCont(s[3])
        c4 == n >= 4 /\ IsCont(s[4])
    IN  IF n = 0 THEN 0
        ELSE IF b < 128 THEN 1
        ELSE IF b >= 194 /\ b <= 223 THEN (IF c2 THEN 2 ELSE 0)
        ELSE IF b = 224 THEN (IF n >= 2 /\ s[2] >= 160 /\ s[2] <= 191 /\ c3 THEN 3 ELSE 0)
        ELSE IF b = 237 THEN (IF n >= 2 /\ s[2] >= 128 /\ s[2] <= 159 /\ c3 THEN 3 ELSE 0)
        ELSE IF b >= 225 /\ b <= 239 THEN (IF c2 /\ c3 THEN 3 ELSE 0)
        ELSE IF b = 240 THEN (IF n >= 2 /\ s[2] >= 144 /\ s[2] <= 191 /\ c3 /\ c4 THEN 4 ELSE 0)
        ELSE IF b >= 241 /\ b <= 243 THEN (IF c2 /\ c3 /\ c4 THEN 4 ELSE 0)
        ELSE IF b = 244 THEN (IF n >= 2 /\ s[2] >= 128 /\ s[2] <= 143 /\ c3 /\ c4 THEN 4 ELSE 0)
        ELSE 0

RECURSIVE Utf8Valid(_)
\* str::from_utf8(..).is_ok()
Utf8Valid(s) ==
    IF s = <<>> THEN TRUE
    ELSE LET k == Utf8CharLen(s)
         IN  k > 0 /\ Utf8Valid(SubSeq(s, k + 1, Len(s)))

RECURSIVE TrimEndNul(_)
\* trim_end_matches('\0')
TrimEndNul(s) ==
    IF s # <<>> /\ s[Len(s)] = 0 THEN TrimEndNul(SubSeq(s, 1, Len(s) - 1)) ELSE s

\* str::from_utf8(&buf).unwrap_or("") compared with a 4-character ASCII literal
StrEq(buf, lit) == Utf8Valid(buf) /\ buf = lit

----------------------------------------------------------------------------
(* Primitive reads on the File *)

\* read_exact of n bytes at position p succeeds
CanRead(f, p, n) == p + n <= Len(f)

\* read_u32::<LittleEndian>
LE32(b) == b[1] + 256 * b[2] + 65536 * b[3] + 16777216 * b[4]

\* read_i8
I8(b) == IF b >= 128 THEN b - 256 ELSE b

----------------------------------------------------------------------------
(* Data structures *)

DefaultKeygroup ==
    [low_key |-> 0, high_key |-> 0, low_vel |-> 0, high_vel |-> 0,
     sample |-> None, tune |-> None, filter |-> None,
     amp_env |-> None, filter_env |-> None, aux_env |-> None,
     lfo1 |-> None, lfo2 |-> None, mods |-> <<>>]

DefaultProgram == [header |-> None, keygroups |-> <<>>]

\* run_batch_conversion was not called
NoBatch ==
    [pc |-> "idle", path_kind |-> "dir", directory |-> <<>>, akp_files |-> <<>>, i |-> 0,
     success_count |-> 0, error_count |-> 0, errors |-> <<>>, attempts |-> <<>>,
     result |-> "Pending"]

\* RustySamplersApp::default()
DefaultApp ==
    [selected_files |-> <<>>, output_format |-> "Sfz", conversion_status |-> "",
     is_converting |-> FALSE, progress_receiver |-> <<>>, conversion_results |-> <<>>]

\* No batch runs and no GUI is open
CommandLineOnly ==
    /\ batch = NoBatch
    /\ app = DefaultApp
    /\ channels = <<>>
    /\ workers = <<>>

----------------------------------------------------------------------------
(* Chunk Reader *)

\* read_chunk_header reporting a short read the way the signature reads do
read_chunk_header_mapped(f, p) ==
    IF ~CanRead(f, p, 8)
    THEN [err |-> CorruptedChunk("header", "Failed to read chunk header"), id |-> <<>>, size |-> 0]
    ELSE LET buf == Slice(f, p, 4)
         IN  [err  |-> NoError,
              id   |-> TrimEndNul(IF Utf8Valid(buf) THEN buf ELSE TagInvalid),
              size |-> LE32(Slice(f, p + 4, 4))]

\* read_chunk_header at position p: Io unless 8 bytes remain; the id is the
\* 4 tag bytes as text ("????" if they are not UTF-8) without trailing NULs.
read_chunk_header(f, p) ==
    IF ~CanRead(f, p, 4) THEN [err |-> Io, id |-> <<>>, size |-> 0]
    ELSE IF ~CanRead(f, p + 4, 4) THEN [err |-> Io, id |-> <<>>, size |-> 0]
    ELSE LET buf == Slice(f, p, 4)
         IN  [err  |-> NoError,
              id   |-> TrimEndNul(IF Utf8Valid(buf) THEN buf ELSE TagInvalid),
              size |-> LE32(Slice(f, p + 4, 4))]

----------------------------------------------------------------------------
(* Per-chunk parsers: `data` is the buffered payload behind the Cursor.     *)
(* A read_u8 at index i of the Cursor fails with Io when i >= Len(data).    *)

parse_program_header(data) ==
    IF Len(data) < 3 THEN [err |-> Io, val |-> None]
    ELSE [err |-> NoError,
          val |-> Some([midi_program_number |-> data[2], number_of_keygroups |-> data[3]])]

\* parse_zone_chunk with the MIDI-range checks ahead of the ordering checks
parse_zone_chunk_range_first(data, kg) ==
    LET n   == Len(data)
        k4  == IF n >= 5
               THEN [kg EXCEPT !.low_key = data[2], !.high_key = data[3],
                               !.low_vel = data[4], !.high_vel = data[5]]
               ELSE kg
    IN  IF n < 5 THEN [err |-> Io, kg |-> k4]
        ELSE IF k4.high_key > 127
            THEN [err |-> InvalidParameterValue("high_key", k4.high_key), kg |-> k4]
        ELSE IF k4.high_vel > 127
            THEN [err |-> InvalidParameterValue("high_vel", k4.high_vel), kg |-> k4]
        ELSE IF k4.low_key > k4.high_key
            THEN [err |-> InvalidKeyRange(k4.low_key, k4.high_key), kg |-> k4]
        ELSE IF k4.low_vel > k4.high_vel
            THEN [err |-> InvalidVelocityRange(k4.low_vel, k4.high_vel), kg |-> k4]
        ELSE [err |-> NoError, kg |-> k4]

\* The four fields are stored into the keygroup as they are read, before any
\* validation; the checks then run in source order.
parse_zone_chunk(data, kg) ==
    LET n   == Len(data)
        k1  == IF n >= 2 THEN [kg EXCEPT !.low_key = data[2]] ELSE kg
        k2  == IF n >= 3 THEN [k1 EXCEPT !.high_key = data[3]] ELSE k1
        k3  == IF n >= 4 THEN [k2 EXCEPT !.low_vel = data[4]] ELSE k2
        k4  == IF n >= 5 THEN [k3 EXCEPT !.high_vel = data[5]] ELSE k3
    IN  IF n < 5 THEN [err |-> Io, kg |-> k4]
        ELSE IF k4.low_key > k4.high_key
            THEN [err |-> InvalidKeyRange(k4.low_key, k4.high_key), kg |-> k4]
        ELSE IF k4.low_vel > k4.high_vel
            THEN [err |-> InvalidVelocityRange(k4.low_vel, k4.high_vel), kg |-> k4]
        ELSE IF k4.high_key > 127
            THEN [err |-> InvalidParameterValue("high_key", k4.high_key), kg |-> k4]
        ELSE IF k4.high_vel > 127
            THEN [err |-> InvalidParameterValue("high_vel", k4.high_vel), kg |-> k4]
        ELSE [err |-> NoError, kg |-> k4]

\* Index (1-based) of the first NUL of s, Len(s) + 1 if none
FirstNul(s) ==
    IF \E i \in 1..Len(s) : s[i] = 0
    THEN CHOOSE i \in 1..Len(s) : s[i] = 0 /\ \A j \in 1..(i - 1) : s[j] # 0
    ELSE Len(s) + 1

\* Code point of the well-formed UTF-8 character of k bytes at the head of s
Utf8CodePoint(s, k) ==
    IF k = 1 THEN s[1]
    ELSE IF k = 2 THEN (s[1] - 192) * 64 + (s[2] - 128)
    ELSE IF k = 3 THEN (s[1] - 224) * 4096 + (s[2] - 128) * 64 + (s[3] - 128)
    ELSE (s[1] - 240) * 262144 + (s[2] - 128) * 4096 + (s[3] - 128) * 64 + (s[4] - 128)

\* Length of the maximal invalid prefix that from_utf8_lossy replaces by one U+FFFD
Utf8InvalidLen(s) ==
    LET n == Len(s)
        b == s[1]
        second_ok ==
            /\ n >= 2
            /\ \/ b = 224 /\ s[2] >= 160 /\ s[2] <= 191
               \/ b \in (225..236) \cup {238, 239} /\ IsCont(s[2])
               \/ b = 237 /\ s[2] >= 128 /\ s[2] <= 159
               \/ b = 240 /\ s[2] >= 144 /\ s[2] <= 191
               \/ b \in 241..243 /\ IsCont(s[2])
               \/ b = 244 /\ s[2] >= 128 /\ s[2] <= 143
    IN  IF b >= 224 /\ b <= 239 THEN (IF second_ok THEN 2 ELSE 1)
        ELSE IF b >= 240 /\ b <= 244
            THEN (IF ~second_ok THEN 1 ELSE IF n >= 3 /\ IsCont(s[3]) THEN 3 ELSE 2)
        ELSE 1

RECURSIVE from_utf8_lossy(_)
\* String::from_utf8_lossy, the String given as its sequence of code points
from_utf8_lossy(s) ==
    IF s = <<>> THEN <<>>
    ELSE LET k == Utf8CharLen(s)
         IN  IF k > 0
             THEN <<Utf8CodePoint(s, k)>> \o from_utf8_lossy(SubSeq(s, k + 1, Len(s)))
             ELSE <<65533>> \o from_utf8_lossy(SubSeq(s, Utf8InvalidLen(s) + 1, Len(s)))

parse_smpl_chunk(data) ==
    LET buffer   == SubSeq(data, 3, Len(data))
        end      == FirstNul(buffer) - 1
        filename == from_utf8_lossy(SubSeq(buffer, 1, end))
    IN  IF filename = <<>>
        THEN [err |-> CorruptedChunk("smpl", "Empty sample filename"), val |-> None]
        ELSE [err |-> NoError, val |-> Some([filename |-> filename])]

parse_tune_chunk(data) ==
    IF Len(data) < 5 THEN [err |-> Io, val |-> None]
    ELSE [err |-> NoError,
          val |-> Some([level |-> data[3], semitone |-> I8(data[4]), fine_tune |-> I8(data[5])])]

\* parse_filt_chunk without the validation of the filter type
parse_filt_chunk_unchecked(data) ==
    IF Len(data) < 8 THEN [err |-> Io, val |-> None]
    ELSE [err |-> NoError,
          val |-> Some([cutoff |-> data[3], resonance |-> data[4], filter_type |-> data[8]])]

parse_filt_chunk(data) ==
    IF Len(data) < 8 THEN [err |-> Io, val |-> None]
    ELSE IF data[8] > 3
        THEN [err |-> InvalidParameterValue("filter_type", data[8]), val |-> None]
    ELSE [err |-> NoError,
          val |-> Some([cutoff |-> data[3], resonance |-> data[4], filter_type |-> data[8]])]

parse_env_chunk(data) ==
    IF Len(data) < 6 THEN [err |-> Io, val |-> None]
    ELSE [err |-> NoError,
          val |-> Some([attack |-> data[3], decay |-> data[4],
                        sustain |-> data[5], release |-> data[6]])]

parse_lfo_chunk(data) ==
    IF Len(data) < 9 THEN [err |-> Io, val |-> None]
    ELSE [err |-> NoError,
          val |-> Some([waveform |-> data[6], rate |-> data[7],
                        delay |-> data[8], depth |-> data[9]])]

parse_mods_chunk(data) ==
    IF Len(data) < 4 THEN [err |-> Io, val |-> None]
    ELSE [err |-> NoError,
          val |-> Some([source |-> data[2], destination |-> data[3], amount |-> data[4]])]

----------------------------------------------------------------------------
(* Container Validator *)

\* validate_riff_header without the seek over the size field: the inner
\* signature is looked for right after the outer one
validate_riff_header_no_skip(f) ==
    IF ~CanRead(f, 0, 4)
        THEN [err |-> CorruptedChunk("RIFF", "Failed to read RIFF signature"), pos |-> Len(f)]
    ELSE IF ~StrEq(Slice(f, 0, 4), RIFF)
        THEN [err |-> InvalidRiffHeader, pos |-> 4]
    ELSE IF ~CanRead(f, 4, 4)
        THEN [err |-> CorruptedChunk("APRG", "Failed to read APRG signature"),
              pos |-> Max(4, Len(f))]
    ELSE IF ~StrEq(Slice(f, 4, 4), APRG)
        THEN [err |-> InvalidAprgSignature, pos |-> 8]
    ELSE [err |-> NoError, pos |-> 8]

\* validate_riff_header on a File at offset 0: the error (if any) and the
\* stream position it leaves.  A failed read_exact of a signature is mapped
\* to CorruptedChunk; the seek over the size field cannot fail on a File.
validate_riff_header(f) ==
    IF ~CanRead(f, 0, 4)
        THEN [err |-> CorruptedChunk("RIFF", "Failed to read RIFF signature"), pos |-> Len(f)]
    ELSE IF ~StrEq(Slice(f, 0, 4), RIFF)
        THEN [err |-> InvalidRiffHeader, pos |-> 4]
    ELSE IF ~CanRead(f, 8, 4)
        THEN [err |-> CorruptedChunk("APRG", "Failed to read APRG signature"),
              pos |-> Max(8, Len(f))]
    ELSE IF ~StrEq(Slice(f, 8, 4), APRG)
        THEN [err |-> InvalidAprgSignature, pos |-> 12]
    ELSE [err |-> NoError, pos |-> 12]

----------------------------------------------------------------------------
(* The parser as a step function on the record of its state.               *)
(*   pc = "top"    : at the head of the loop of parse_top_level_chunks     *)
(*   pc = "kgrp"   : at the head of the loop of parse_keygroup             *)
(*   pc = "parsed" : parse_top_level_chunks returned Ok                    *)
(*   pc = "failed" : a parsing function returned Err (in parse_err)        *)

ParserState(p, prog) ==
    [pos |-> p, pc |-> "top", program |-> prog, keygroup |-> DefaultKeygroup,
     env_count |-> 0, lfo_count |-> 0, kgrp_end_pos |-> 0, cursor |-> <<>>,
     parse_err |-> NoError, hdr_reads |-> <<>>, kg_reads |-> <<0, 0, 0>>]

\* An Err return that leaves the keygroup under construction in the Program
Fail_keeping_keygroup(s, e) ==
    [s EXCEPT !.pc = "failed", !.parse_err = e,
              !.program.keygroups = IF s.pc = "kgrp" THEN Append(@, s.keygroup) ELSE @,
              !.keygroup = DefaultKeygroup, !.env_count = 0, !.lfo_count = 0]

\* An Err return: every local of the failing call is dropped
Fail(s, e) ==
    [s EXCEPT !.pc = "failed", !.parse_err = e, !.keygroup = DefaultKeygroup,
              !.env_count = 0, !.lfo_count = 0]

\* The highest offset (plus one) touched by a read of n bytes at p
ReadUpTo(f, p, n) == IF n > 0 /\ p < Len(f) THEN Min(p + n, Len(f)) ELSE 0

\* The "prg " arm: the size check, the payload read (a failure of which is
\* mapped to CorruptedChunk), parse_program_header, the header stored
PrgArm(f, s, size) ==
    IF size < 3 THEN Fail(s, InvalidChunkSize("prg", size))
    ELSE IF ~CanRead(f, s.pos, size)
        THEN Fail(s, CorruptedChunk("prg", "Failed to read chunk data"))
    ELSE LET data == Slice(f, s.pos, size)
             r    == parse_program_header(data)
         IN  IF ~IsOk(r.err) THEN Fail([s EXCEPT !.cursor = data], r.err)
             ELSE [s EXCEPT !.cursor = data, !.pos = @ + size, !.program.header = r.val]

\* The "kgrp" arm without its size check
KgrpArm_unchecked(s, size) ==
    [s EXCEPT !.pc = "kgrp", !.kgrp_end_pos = s.pos + size,
              !.keygroup = DefaultKeygroup, !.env_count = 0, !.lfo_count = 0,
              !.kg_reads = <<s.pos, size, 0>>]

\* The "kgrp" arm up to the call of parse_keygroup: the size check and
\* kgrp_end_pos; the callee starts with a default Keygroup and zero counters
KgrpArm(s, size) ==
    IF size = 0 THEN Fail(s, InvalidChunkSize("kgrp", size))
    ELSE [s EXCEPT !.pc = "kgrp", !.kgrp_end_pos = s.pos + size,
                   !.keygroup = DefaultKeygroup, !.env_count = 0, !.lfo_count = 0,
                   !.kg_reads = <<s.pos, size, 0>>]

\* The `_` arm of the top level treating an unknown tag as an error
UnknownTopLevel_rejecting(s, size) == Fail(s, Err("UnknownChunkType", "", "", size, 0))

\* The `_` arm of the top level: seek `size` bytes forward
UnknownTopLevel(s, size) == [s EXCEPT !.pos = @ + size]

\* TopLevelChunk with the header looked at but not consumed: the arms run
\* with the stream still positioned at the header
TopLevelChunk_peeking(f, s) ==
    LET h  == read_chunk_header(f, s.pos)
        s1 == [s EXCEPT !.hdr_reads = Append(@, [at |-> s.pos, level |-> "top"])]
    IN  IF ~IsOk(h.err) THEN Fail(s1, h.err)
        ELSE IF h.id = TagPrg THEN PrgArm(f, s1, h.size)
        ELSE IF h.id = TagKgrp THEN KgrpArm(s1, h.size)
        ELSE UnknownTopLevel(s1, h.size)

\* One iteration of the loop of parse_top_level_chunks, pos < end_pos; the
\* arms run with the stream positioned after the header
TopLevelChunk(f, s) ==
    LET h  == read_chunk_header(f, s.pos)
        s1 == [s EXCEPT !.hdr_reads = Append(@, [at |-> s.pos, level |-> "top"])]
        s2 == [s1 EXCEPT !.pos = @ + 8]
    IN  IF ~IsOk(h.err) THEN Fail(s1, h.err)
        ELSE IF h.id = TagPrg THEN PrgArm(f, s2, h.size)
        ELSE IF h.id = TagKgrp THEN KgrpArm(s2, h.size)
        ELSE UnknownTopLevel(s2, h.size)

\* The `_` arm of parse_keygroup: the buffered payload is dropped
UnknownNested(s) == s

\* The match on env_count with every envelope after the second stored as
\* the aux envelope
StoreEnvelope_overwriting(s, envelope) ==
    [s EXCEPT !.keygroup.amp_env    = IF s.env_count = 0 THEN envelope ELSE @,
              !.keygroup.filter_env = IF s.env_count = 1 THEN envelope ELSE @,
              !.keygroup.aux_env    = IF s.env_count >= 2 THEN envelope ELSE @,
              !.env_count = @ + 1]

\* The match on env_count: the envelope (an Option holding it) goes to the
\* slot of its occurrence, a fourth or later one to none; env_count += 1
StoreEnvelope(s, envelope) ==
    [s EXCEPT !.keygroup.amp_env    = IF s.env_count = 0 THEN envelope ELSE @,
              !.keygroup.filter_env = IF s.env_count = 1 THEN envelope ELSE @,
              !.keygroup.aux_env    = IF s.env_count = 2 THEN envelope ELSE @,
              !.env_count = @ + 1]

\* The match on lfo_count; lfo_count += 1
StoreLfo(s, lfo) ==
    [s EXCEPT !.keygroup.lfo1 = IF s.lfo_count = 0 THEN lfo ELSE @,
              !.keygroup.lfo2 = IF s.lfo_count = 1 THEN lfo ELSE @,
              !.lfo_count = @ + 1]

\* The arm of parse_keygroup's match for the chunk `id` whose payload `data`
\* has been buffered: the minimum-size check, then the chunk parser.
KeygroupArm(s, id, size, data) ==
    IF id = TagZone THEN
        IF size < 5 THEN Fail(s, InvalidChunkSize("zone", size))
        ELSE LET r == parse_zone_chunk(data, s.keygroup)
             IN  IF ~IsOk(r.err) THEN Fail([s EXCEPT !.keygroup = r.kg], r.err)
                 ELSE [s EXCEPT !.keygroup = r.kg]
    ELSE IF id = TagSmpl THEN
        IF size < 3 THEN Fail(s, InvalidChunkSize("smpl", size))
        ELSE LET r == parse_smpl_chunk(data)
             IN  IF ~IsOk(r.err) THEN Fail(s, r.err)
                 ELSE [s EXCEPT !.keygroup.sample = r.val]
    ELSE IF id = TagTune THEN
        IF size < 5 THEN Fail(s, InvalidChunkSize("tune", size))
        ELSE LET r == parse_tune_chunk(data)
             IN  IF ~IsOk(r.err) THEN Fail(s, r.err)
                 ELSE [s EXCEPT !.keygroup.tune = r.val]
    ELSE IF id = TagFilt THEN
        IF size < 8 THEN Fail(s, InvalidChunkSize("filt", size))
        ELSE LET r == parse_filt_chunk(data)
             IN  IF ~IsOk(r.err) THEN Fail(s, r.err)
                 ELSE [s EXCEPT !.keygroup.filter = r.val]
    ELSE IF id = TagEnv THEN
        IF size < 6 THEN Fail(s, InvalidChunkSize("env", size))
        ELSE LET r == parse_env_chunk(data)
             IN  IF ~IsOk(r.err) THEN Fail(s, r.err)
                 ELSE StoreEnvelope(s, r.val)
    ELSE IF id = TagLfo THEN
        IF size < 9 THEN Fail(s, InvalidChunkSize("lfo", size))
        ELSE LET r == parse_lfo_chunk(data)
             IN  IF ~IsOk(r.err) THEN Fail(s, r.err)
                 ELSE StoreLfo(s, r.val)
    ELSE IF id = TagMods THEN
        IF size < 4 THEN Fail(s, InvalidChunkSize("mods", size))
        ELSE LET r == parse_mods_chunk(data)
             IN  IF ~IsOk(r.err) THEN Fail(s, r.err)
                 ELSE [s EXCEPT !.keygroup.mods = @ \o r.val]
    ELSE UnknownNested(s)

\* One iteration of the loop of parse_keygroup, pos < end_pos: the header is
\* read, then `size` bytes are buffered, then the arm of the tag runs.
KeygroupChunk(f, s) ==
    LET h    == read_chunk_header(f, s.pos)
        body == s.pos + 8
        s1   == [s EXCEPT !.hdr_reads = Append(@, [at |-> s.pos, level |-> "kgrp"]),
                          !.kg_reads[3] = Max(@, ReadUpTo(f, s.pos, 8))]
    IN  IF ~IsOk(h.err) THEN Fail(s1, h.err)
        ELSE LET s2 == [s1 EXCEPT !.kg_reads[3] = Max(@, ReadUpTo(f, body, h.size))]
             IN  IF ~CanRead(f, body, h.size) THEN Fail(s2, Io)
                 ELSE LET data == Slice(f, body, h.size)
                      IN  KeygroupArm([s2 EXCEPT !.cursor = data, !.pos = body + h.size],
                                      h.id, h.size, data)

\* parse_keygroup returns Ok(keygroup) and the "kgrp" arm pushes it
KeygroupDone(s) ==
    [s EXCEPT !.pc = "top", !.program.keygroups = Append(@, s.keygroup),
              !.keygroup = DefaultKeygroup, !.env_count = 0, !.lfo_count = 0]

\* One step of the parser; end_pos is the file length in both entry points
ParserStep(f, s) ==
    IF s.pc = "top" THEN
        IF s.pos < Len(f) THEN TopLevelChunk(f, s) ELSE [s EXCEPT !.pc = "parsed"]
    ELSE IF s.pc = "kgrp" THEN
        IF s.pos < s.kgrp_end_pos THEN KeygroupChunk(f, s) ELSE KeygroupDone(s)
    ELSE s

RECURSIVE ParserRun(_, _)
\* parse_top_level_chunks from state s to its return
ParserRun(f, s) ==
    IF s.pc \in {"parsed", "failed"} THEN s ELSE ParserRun(f, ParserStep(f, s))

----------------------------------------------------------------------------
(* Text rendering.  A generated document is the sequence of its lines;     *)
(* a Rust String held in the Program is the sequence of its code points.   *)

Ascii ==
    <<
    " ", "!", "\"", "#", "$", "%", "&", "'", "(", ")", "*", "+",
    ",", "-", ".", "/", "0", "1", "2", "3", "4", "5", "6", "7",
    "8", "9", ":", ";", "<", "=", ">", "?", "@", "A", "B", "C",
    "D", "E", "F", "G", "H", "I", "J", "K", "L", "M", "N", "O",
    "P", "Q", "R", "S", "T", "U", "V", "W", "X", "Y", "Z", "[",
    "\\", "]", "^", "_", "\\u{96}", "a", "b", "c", "d", "e", "f", "g",
    "h", "i", "j", "k", "l", "m", "n", "o", "p", "q", "r", "s",
    "t", "u", "v", "w", "x", "y", "z", "{", "|", "}", "~" >>

\* The text of one character: printable ASCII as itself (entry c - 31 of
\* Ascii), the grave accent and any other code point c in the notation \u{c}
CharStr(c) == IF c >= 32 /\ c <= 126 THEN Ascii[c - 31] ELSE "\\u{" \o ToString(c) \o "}"

RECURSIVE StrOf(_)
StrOf(cps) == IF cps = <<>> THEN "" ELSE CharStr(Head(cps)) \o StrOf(Tail(cps))

\* str::replace of one character by another
Replace(cps, from, to) == [i \in 1..Len(cps) |-> IF cps[i] = from THEN to ELSE cps[i]]

Abs(x) == IF x < 0 THEN 0 - x ELSE x

Pow10(d) == IF d = 1 THEN 10 ELSE IF d = 2 THEN 100 ELSE 1000

\* format!("{}", n) of an integer
Dec(n) == IF n < 0 THEN "-" \o ToString(0 - n) ELSE ToString(n)

\* format!("{:.d}", v) of the number v = x / 10^d, x the value already rounded
\* to d decimals
Fixed(x, d) ==
    LET a    == Abs(x)
        frac == a % Pow10(d)
        pad  == IF d = 3 /\ frac < 10 THEN "00"
                ELSE IF d = 3 /\ frac < 100 THEN "0"
                ELSE IF d = 2 /\ frac < 10 THEN "0"
                ELSE ""
    IN  (IF x < 0 THEN "-" ELSE "") \o ToString(a \div Pow10(d)) \o "." \o pad \o ToString(frac)

\* n / d rounded to the nearest integer (d > 0)
RoundDiv(n, d) == (2 * n + d) \div (2 * d)

----------------------------------------------------------------------------
(* The f32 curves of the generators, tabulated for raw values 0..127 in    *)
(* units of the last printed decimal.  Entry raw + 1 is the value the f32  *)
(* expression yields for `raw`, rounded as format! rounds it.              *)

\* (raw as f32 / 100.0 * 4.0).exp() * 0.001, in thousandths
ExpK4 ==
    <<
    1, 1, 1, 1, 1, 1, 1, 1, 1, 1, 1, 2, 2, 2, 2, 2,
    2, 2, 2, 2, 2, 2, 2, 3, 3, 3, 3, 3, 3, 3, 3, 3,
    4, 4, 4, 4, 4, 4, 5, 5, 5, 5, 5, 6, 6, 6, 6, 7,
    7, 7, 7, 8, 8, 8, 9, 9, 9, 10, 10, 11, 11, 11, 12, 12,
    13, 13, 14, 15, 15, 16, 16, 17, 18, 19, 19, 20, 21, 22, 23, 24,
    25, 26, 27, 28, 29, 30, 31, 32, 34, 35, 37, 38, 40, 41, 43, 45,
    47, 48, 50, 52, 55, 57, 59, 62, 64, 67, 69, 72, 75, 78, 81, 85,
    88, 92, 96, 99, 104, 108, 112, 117, 122, 126, 132, 137, 143, 148, 154, 161 >>

\* (raw as f32 / 100.0 * 5.0).exp() * 0.001, in thousandths
ExpK5 ==
    <<
    1, 1, 1, 1, 1, 1, 1, 1, 1, 2, 2, 2, 2, 2, 2, 2,
    2, 2, 2, 3, 3, 3, 3, 3, 3, 3, 4, 4, 4, 4, 4, 5,
    5, 5, 5, 6, 6, 6, 7, 7, 7, 8, 8, 9, 9, 9, 10, 10,
    11, 12, 12, 13, 13, 14, 15, 16, 16, 17, 18, 19, 20, 21, 22, 23,
    25, 26, 27, 29, 30, 32, 33, 35, 37, 38, 40, 43, 45, 47, 49, 52,
    55, 57, 60, 63, 67, 70, 74, 77, 81, 86, 90, 95, 99, 105, 110, 116,
    122, 128, 134, 141, 148, 156, 164, 172, 181, 191, 200, 211, 221, 233, 245, 257,
    270, 284, 299, 314, 330, 347, 365, 384, 403, 424, 446, 469, 493, 518, 545, 572 >>

\* (raw as f32 / 100.0 * 6.0).exp() * 0.001, in thousandths
ExpK6 ==
    <<
    1, 1, 1, 1, 1, 1, 1, 2, 2, 2, 2, 2, 2, 2, 2, 2,
    3, 3, 3, 3, 3, 4, 4, 4, 4, 4, 5, 5, 5, 6, 6, 6,
    7, 7, 8, 8, 9, 9, 10, 10, 11, 12, 12, 13, 14, 15, 16, 17,
    18, 19, 20, 21, 23, 24, 26, 27, 29, 31, 32, 34, 37, 39, 41, 44,
    47, 49, 52, 56, 59, 63, 67, 71, 75, 80, 85, 90, 96, 101, 108, 114,
    122, 129, 137, 145, 154, 164, 174, 185, 196, 209, 221, 235, 250, 265, 281, 299,
    317, 337, 358, 380, 403, 428, 455, 483, 513, 545, 578, 614, 652, 692, 735, 781,
    829, 880, 934, 992, 1054, 1119, 1188, 1261, 1339, 1422, 1510, 1604, 1703, 1808, 1920, 2039 >>

\* 20.0 * (1000.0f32).powf(raw as f32 / 100.0), in tenths
CutoffHz ==
    <<
    200, 214, 230, 246, 264, 283, 303, 324, 348, 372, 399, 428,
    458, 491, 526, 564, 604, 647, 693, 743, 796, 853, 914, 980,
    1050, 1125, 1205, 1291, 1384, 1483, 1589, 1702, 1824, 1954, 2094, 2244,
    2405, 2576, 2761, 2958, 3170, 3396, 3639, 3900, 4179, 4477, 4798, 5141,
    5508, 5902, 6325, 6777, 7262, 7781, 8337, 8934, 9573, 10257, 10991, 11777,
    12619, 13522, 14489, 15525, 16635, 17825, 19100, 20466, 21930, 23498, 25179, 26979,
    28909, 30976, 33192, 35566, 38109, 40835, 43755, 46885, 50238, 53831, 57681, 61806,
    66226, 70963, 76038, 81476, 87303, 93547, 100237, 107406, 115088, 123319, 132139, 141589,
    151715, 162566, 174193, 186651, 200000, 214304, 229631, 246054, 263651, 282507, 302712, 324362,
    347560, 372418, 399053, 427592, 458174, 490942, 526054, 563677, 603990, 647187, 693473, 743071,
    796215, 853159, 914177, 979558, 1049615, 1124683, 1205119, 1291308 >>

\* 0.1 * (300.0f32).powf(raw as f32 / 100.0), in hundredths
LfoFreqHz ==
    <<
    10, 11, 11, 12, 13, 13, 14, 15, 16, 17, 18, 19, 20, 21, 22, 24,
    25, 26, 28, 30, 31, 33, 35, 37, 39, 42, 44, 47, 49, 52, 55, 59,
    62, 66, 70, 74, 78, 83, 87, 92, 98, 104, 110, 116, 123, 130, 138, 146,
    155, 164, 173, 183, 194, 206, 218, 230, 244, 258, 273, 289, 306, 324, 343, 364,
    385, 408, 431, 457, 484, 512, 542, 574, 607, 643, 681, 721, 763, 808, 855, 906,
    959, 1015, 1075, 1138, 1204, 1275, 1350, 1429, 1513, 1602, 1696, 1795, 1901, 2012, 2131, 2256,
    2388, 2528, 2677, 2834, 3000, 3176, 3363, 3560, 3769, 3990, 4224, 4472, 4735, 5013, 5307, 5618,
    5948, 6297, 6667, 7058, 7472, 7911, 8375, 8867, 9387, 9938, 10522, 11139, 11793, 12485, 13218, 13994 >>

\* (level as f32 / 100.0) * 66.0 - 60.0, in hundredths
VolumeDb(level) == level * 66 - 6000

----------------------------------------------------------------------------
(* Opcode-format generator: AkaiProgram::to_sfz_string *)

LfoWaveform(w, default) ==
    IF w = 0 THEN "triangle" ELSE IF w = 1 THEN "sine" ELSE IF w = 2 THEN "square"
    ELSE IF w = 3 THEN "saw" ELSE IF w = 4 THEN "ramp" ELSE IF w = 5 THEN "random"
    ELSE default

\* modulation.source 0..12
SfzSource ==
    << "lfo1", "modwheel", "aftertouch", "key", "keygate", "vel", "lfo2",
       "pitchbend", "chanpress", "polypress", "breath", "foot", "expression" >>

\* modulation.destination 0..17
SfzDestination ==
    << "pitch", "cutoff", "resonance", "volume", "pan", "lfo1_freq", "lfo2_freq",
       "ampeg_attack", "ampeg_decay", "ampeg_sustain", "ampeg_release",
       "fileg_attack", "fileg_decay", "fileg_sustain", "fileg_release",
       "amplfo_depth", "fillfo_depth", "pitchlfo_depth" >>

ScaleFactor ==
    << 12, 9600, 40, 60, 100, 20, 20, 10, 10, 100, 10, 10, 10, 100, 10, 100, 9600, 1200 >>

\* ScaledAmount without the bipolar normalization: (amount / 100) * scale_factor
ScaledAmount_unipolar(amount, scale) == RoundDiv(amount * scale, 10)

\* ((amount / 100) * 2 - 1) * scale_factor, in tenths
ScaledAmount(amount, scale) == RoundDiv((2 * amount - 100) * scale, 10)

SfzSample(kg) ==
    IF IsSome(kg.sample)
    THEN << "sample=" \o StrOf(Replace(kg.sample[1].filename, 92, 47)) >>
    ELSE <<>>

SfzRange(kg) ==
    << "lokey=" \o Dec(kg.low_key), "hikey=" \o Dec(kg.high_key),
       "lovel=" \o Dec(kg.low_vel), "hivel=" \o Dec(kg.high_vel) >>

SfzTune(kg) ==
    IF IsSome(kg.tune)
    THEN LET tune == kg.tune[1]
         IN  << "volume=" \o Fixed(VolumeDb(tune.level), 2),
                "tune=" \o Dec(tune.semitone),
                "fine_tune=" \o Dec(tune.fine_tune),
                "amp_veltrack=100" >>
    ELSE <<>>

\* attack_time without the case of a raw value of 0
amp_attack_time_exp_only(raw) == ExpK4[raw + 1]

\* attack_time, decay_time and release_time of the amp envelope, in thousandths
amp_attack_time(raw) == IF raw = 0 THEN 0 ELSE ExpK4[raw + 1]

amp_decay_time(raw) == IF raw = 0 THEN 0 ELSE ExpK4[raw + 1]

amp_release_time(raw) == IF raw = 0 THEN 1 ELSE ExpK5[raw + 1]

\* SfzAmpEnv writing the default envelope itself when the keygroup has none
SfzAmpEnv_with_default(kg) ==
    IF IsSome(kg.amp_env)
    THEN LET env          == kg.amp_env[1]
             attack_time  == amp_attack_time(env.attack)
             decay_time   == amp_decay_time(env.decay)
             release_time == amp_release_time(env.release)
         IN  << "ampeg_attack=" \o Fixed(attack_time, 3),
                "ampeg_decay=" \o Fixed(decay_time, 3),
                "ampeg_sustain=" \o Dec(env.sustain),
                "ampeg_release=" \o Fixed(release_time, 3) >>
             \o (IF env.attack > 10 THEN << "ampeg_vel2attack=-20" >> ELSE <<>>)
             \o (IF env.decay > 10 THEN << "ampeg_vel2decay=-10" >> ELSE <<>>)
    ELSE << "ampeg_attack=0.001", "ampeg_decay=0.1", "ampeg_sustain=100",
            "ampeg_release=0.3" >>

SfzAmpEnv(kg) ==
    IF IsSome(kg.amp_env)
    THEN LET env          == kg.amp_env[1]
             attack_time  == amp_attack_time(env.attack)
             decay_time   == amp_decay_time(env.decay)
             release_time == amp_release_time(env.release)
         IN  << "ampeg_attack=" \o Fixed(attack_time, 3),
                "ampeg_decay=" \o Fixed(decay_time, 3),
                "ampeg_sustain=" \o Dec(env.sustain),
                "ampeg_release=" \o Fixed(release_time, 3) >>
             \o (IF env.attack > 10 THEN << "ampeg_vel2attack=-20" >> ELSE <<>>)
             \o (IF env.decay > 10 THEN << "ampeg_vel2decay=-10" >> ELSE <<>>)
    ELSE <<>>

\* A cutoff growing linearly from 20 Hz to 20 kHz
cutoff_hz_linear(raw) == 200 + 1998 * raw

\* 20.0 * (1000.0f32).powf(cutoff / 100.0), in tenths
cutoff_hz(raw) == CutoffHz[raw + 1]

\* (resonance / 100.0) * 40.0, in tenths
resonance_db(raw) == raw * 4

SfzFilter(kg) ==
    IF IsSome(kg.filter) /\ kg.filter[1].filter_type > 0
    THEN LET filter == kg.filter[1]
         IN  << IF filter.filter_type = 1 THEN "fil_type=lpf_2p"
                ELSE IF filter.filter_type = 2 THEN "fil_type=bpf_2p"
                ELSE IF filter.filter_type = 3 THEN "fil_type=hpf_2p"
                ELSE "fil_type=lpf_2p",
                "cutoff=" \o Fixed(cutoff_hz(filter.cutoff), 1),
                "resonance=" \o Fixed(resonance_db(filter.resonance), 1) >>
             \o (IF IsSome(kg.filter_env) THEN << "fileg_depth=2400" >> ELSE <<>>)
    ELSE <<>>

SfzFilterEnv(kg) ==
    IF IsSome(kg.filter_env)
    THEN LET env == kg.filter_env[1]
         IN  << "fileg_attack=" \o Fixed(ExpK5[env.attack + 1], 3),
                "fileg_decay=" \o Fixed(ExpK5[env.decay + 1], 3),
                "fileg_sustain=" \o Dec(env.sustain),
                "fileg_release=" \o Fixed(ExpK6[env.release + 1], 3) >>
    ELSE <<>>

\* The block of one LFO; n is "lfo1" or "lfo2"
SfzLfo(o, n) ==
    IF IsSome(o)
    THEN LET lfo == o[1]
         IN  << n \o "_freq=" \o Fixed(LfoFreqHz[lfo.rate + 1], 2),
                n \o "_wave=" \o LfoWaveform(lfo.waveform, "triangle") >>
             \o (IF lfo.delay > 0
                 THEN << n \o "_delay=" \o Fixed(lfo.delay * 10, 2),
                         n \o "_fade=" \o Fixed(lfo.delay * 5, 2) >>
                 ELSE <<>>)
    ELSE <<>>

\* SfzModulation writing a placeholder line for an unmapped entry
SfzModulation_placeholder(m) ==
    IF m.source > 12 \/ m.destination > 17 THEN << "unknown_to_unknown=0.0" >>
    ELSE << SfzSource[m.source + 1] \o "_to_" \o SfzDestination[m.destination + 1] \o "="
            \o Fixed(ScaledAmount(m.amount, ScaleFactor[m.destination + 1]), 1) >>

\* The line of one modulation entry, none when source or destination is unmapped
SfzModulation(m) ==
    IF m.source > 12 THEN <<>>
    ELSE IF m.destination > 17 THEN <<>>
    ELSE << SfzSource[m.source + 1] \o "_to_" \o SfzDestination[m.destination + 1] \o "="
            \o Fixed(ScaledAmount(m.amount, ScaleFactor[m.destination + 1]), 1) >>

RECURSIVE SfzMods(_)
SfzMods(mods) == IF mods = <<>> THEN <<>> ELSE SfzModulation(Head(mods)) \o SfzMods(Tail(mods))

\* SfzTrailer with the loop-mode opcodes written for every keygroup
SfzTrailer_always_loop(kg) ==
    << "loop_mode=loop_continuous", "loop_start=0", "loop_end=0" >>
    \o << "polyphony=64", "note_polyphony=1", "bend_up=200", "bend_down=-200" >>
    \o (IF ~IsSome(kg.amp_env)
        THEN << "ampeg_attack=0.001", "ampeg_decay=0.1", "ampeg_sustain=100",
                "ampeg_release=0.3" >>
        ELSE <<>>)

SfzTrailer(kg) ==
    (IF IsSome(kg.sample)
     THEN << "loop_mode=loop_continuous", "loop_start=0", "loop_end=0" >>
     ELSE <<>>)
    \o << "polyphony=64", "note_polyphony=1", "bend_up=200", "bend_down=-200" >>
    \o (IF ~IsSome(kg.amp_env)
        THEN << "ampeg_attack=0.001", "ampeg_decay=0.1", "ampeg_sustain=100",
                "ampeg_release=0.3" >>
        ELSE <<>>)

\* The body of the loop over keygroups
SfzRegion(kg) ==
    << "<region>" >> \o SfzSample(kg) \o SfzRange(kg) \o SfzTune(kg) \o SfzAmpEnv(kg)
    \o SfzFilter(kg) \o SfzFilterEnv(kg) \o SfzLfo(kg.lfo1, "lfo1") \o SfzLfo(kg.lfo2, "lfo2")
    \o SfzMods(kg.mods) \o SfzTrailer(kg) \o << "" >>

RECURSIVE SfzRegions(_)
SfzRegions(kgs) == IF kgs = <<>> THEN <<>> ELSE SfzRegion(Head(kgs)) \o SfzRegions(Tail(kgs))

to_sfz_string(prog) == << "// Generated by Rusty Samplers", "" >> \o SfzRegions(prog.keygroups)

----------------------------------------------------------------------------
(* XML-format generator: AkaiProgram::to_dspreset_string *)

\* The XML declaration, the root element and the fixed ui block
DsProlog ==
    << "<?xml version=\"1.0\" encoding=\"UTF-8\"?>",
       "<DecentSampler minVersion=\"1.0.0\">",
       "  <ui>",
       "    <tab name=\"Main\">",
       "      <labeled-knob x=\"10\" y=\"20\" width=\"90\" height=\"100\" parameterName=\"ATTACK\" type=\"float\" minValue=\"0\" maxValue=\"5\" value=\"0.1\" textColor=\"AA000000\">",
       "        <label text=\"Attack\" x=\"0\" y=\"80\" width=\"90\" height=\"30\" />",
       "      </labeled-knob>",
       "      <labeled-knob x=\"110\" y=\"20\" width=\"90\" height=\"100\" parameterName=\"DECAY\" type=\"float\" minValue=\"0\" maxValue=\"5\" value=\"0.5\" textColor=\"AA000000\">",
       "        <label text=\"Decay\" x=\"0\" y=\"80\" width=\"90\" height=\"30\" />",
       "      </labeled-knob>",
       "      <labeled-knob x=\"210\" y=\"20\" width=\"90\" height=\"100\" parameterName=\"SUSTAIN\" type=\"float\" minValue=\"0\" maxValue=\"1\" value=\"0.7\" textColor=\"AA000000\">",
       "        <label text=\"Sustain\" x=\"0\" y=\"80\" width=\"90\" height=\"30\" />",
       "      </labeled-knob>",
       "      <labeled-knob x=\"310\" y=\"20\" width=\"90\" height=\"100\" parameterName=\"RELEASE\" type=\"float\" minValue=\"0\" maxValue=\"10\" value=\"0.3\" textColor=\"AA000000\">",
       "        <label text=\"Release\" x=\"0\" y=\"80\" width=\"90\" height=\"30\" />",
       "      </labeled-knob>",
       "      <labeled-knob x=\"410\" y=\"20\" width=\"90\" height=\"100\" parameterName=\"FILTER_CUTOFF\" type=\"float\" minValue=\"20\" maxValue=\"20000\" value=\"20000\" textColor=\"AA000000\">",
       "        <label text=\"Filter\" x=\"0\" y=\"80\" width=\"90\" height=\"30\" />",
       "      </labeled-knob>",
       "      <labeled-knob x=\"510\" y=\"20\" width=\"90\" height=\"100\" parameterName=\"FILTER_RESONANCE\" type=\"float\" minValue=\"0\" maxValue=\"40\" value=\"0\" textColor=\"AA000000\">",
       "        <label text=\"Resonance\" x=\"0\" y=\"80\" width=\"90\" height=\"30\" />",
       "      </labeled-knob>",
       "    </tab>",
       "  </ui>",
       "" >>

\* The fixed midi block
DsMidi ==
    << "  <midi>",
       "    <!-- MIDI CC bindings can be added here -->",
       "    <cc number=\"1\" parameter=\"FILTER_CUTOFF\" />",
       "    <cc number=\"2\" parameter=\"FILTER_RESONANCE\" />",
       "    <cc number=\"7\" parameter=\"MAIN_VOLUME\" />",
       "  </midi>",
       "" >>

\* The fixed tags block and the end of the root element
DsTags ==
    << "  <tags>",
       "    <tag name=\"author\" value=\"Rusty Samplers\" />",
       "    <tag name=\"description\" value=\"Converted from AKP format\" />",
       "    <tag name=\"conversion-tool\" value=\"Rusty Samplers v1.0\" />",
       "  </tags>",
       "",
       "</DecentSampler>" >>

\* attack, decay and release of the group element, in thousandths
group_attack(raw) == IF raw = 0 THEN 1 ELSE ExpK4[raw + 1]

\* decay with the value of the opcode generator for a raw value of 0
group_decay_unfloored(raw) == IF raw = 0 THEN 0 ELSE ExpK4[raw + 1]

group_decay(raw) == IF raw = 0 THEN 100 ELSE ExpK4[raw + 1]

group_release(raw) == IF raw = 0 THEN 100 ELSE ExpK5[raw + 1]

DsGroupEnv(kg) ==
    IF IsSome(kg.amp_env)
    THEN LET env     == kg.amp_env[1]
             attack  == group_attack(env.attack)
             decay   == group_decay(env.decay)
             sustain == env.sustain * 10
             release == group_release(env.release)
         IN  " attack=\"" \o Fixed(attack, 3) \o "\" decay=\"" \o Fixed(decay, 3)
             \o "\" sustain=\"" \o Fixed(sustain, 3) \o "\" release=\"" \o Fixed(release, 3)
             \o "\""
    ELSE ""

DsGroupVolume(kg) ==
    IF IsSome(kg.tune)
    THEN " volume=\"" \o Fixed(VolumeDb(kg.tune[1].level), 2) \o "\""
    ELSE ""

DsSampleTuning(kg) ==
    IF IsSome(kg.tune)
    THEN (IF kg.tune[1].semitone # 0
          THEN "tuning=\"" \o Dec(kg.tune[1].semitone) \o "\" " ELSE "")
         \o (IF kg.tune[1].fine_tune # 0
             THEN "fineTuning=\"" \o Dec(kg.tune[1].fine_tune) \o "\" " ELSE "")
    ELSE ""

DsSample(kg) ==
    IF IsSome(kg.sample)
    THEN << "      <sample " \o "path=\"" \o StrOf(kg.sample[1].filename) \o "\" "
            \o "loNote=\"" \o Dec(kg.low_key) \o "\" hiNote=\"" \o Dec(kg.high_key) \o "\" "
            \o "loVel=\"" \o Dec(kg.low_vel) \o "\" hiVel=\"" \o Dec(kg.high_vel) \o "\" "
            \o DsSampleTuning(kg) \o "/>" >>
    ELSE <<>>

\* The body of the loop over keygroups; group_id counts from 0
DsGroup(group_id, kg) ==
    << "    <group name=\"Group" \o Dec(group_id + 1) \o "\""
       \o DsGroupEnv(kg) \o DsGroupVolume(kg) \o ">" >>
    \o DsSample(kg)
    \o << "    </group>" >>

RECURSIVE DsGroupsFrom(_, _)
DsGroupsFrom(kgs, i) ==
    IF i > Len(kgs) THEN <<>> ELSE DsGroup(i - 1, kgs[i]) \o DsGroupsFrom(kgs, i + 1)

DsGroups(kgs) == << "  <groups>" >> \o DsGroupsFrom(kgs, 1) \o << "  </groups>", "" >>

DsEffects(kgs) ==
    << "  <effects>" >>
    \o (IF \E i \in 1..Len(kgs) : IsSome(kgs[i].filter)
        THEN << "    <lowpass frequency=\"FILTER_CUTOFF\" resonance=\"FILTER_RESONANCE\" />" >>
        ELSE <<>>)
    \o << "    <reverb roomSize=\"0.5\" damping=\"0.5\" wetLevel=\"0.3\" dryLevel=\"0.7\" width=\"1.0\" />",
          "  </effects>", "" >>

DsLfo(kg) ==
    IF IsSome(kg.lfo1)
    THEN << "    <lfo frequency=\"" \o Fixed(LfoFreqHz[kg.lfo1[1].rate + 1], 2)
            \o "\" waveform=\"" \o LfoWaveform(kg.lfo1[1].waveform, "sine")
            \o "\" target=\"FILTER_CUTOFF\" amount=\"0.3\" />" >>
    ELSE <<>>

RECURSIVE DsLfos(_)
DsLfos(kgs) == IF kgs = <<>> THEN <<>> ELSE DsLfo(Head(kgs)) \o DsLfos(Tail(kgs))

\* DsModulators with has_lfo looking at lfo1 only
DsModulators_lfo1_only(kgs) ==
    IF \E i \in 1..Len(kgs) : IsSome(kgs[i].lfo1)
    THEN << "  <modulators>" >> \o DsLfos(kgs) \o << "  </modulators>", "" >>
    ELSE <<>>

DsModulators(kgs) ==
    IF \E i \in 1..Len(kgs) : IsSome(kgs[i].lfo1) \/ IsSome(kgs[i].lfo2)
    THEN << "  <modulators>" >> \o DsLfos(kgs) \o << "  </modulators>", "" >>
    ELSE <<>>

to_dspreset_string(prog) ==
    DsProlog \o DsGroups(prog.keygroups) \o DsEffects(prog.keygroups) \o DsMidi
    \o DsModulators(prog.keygroups) \o DsTags

----------------------------------------------------------------------------
(* The conversion entry points as a state machine.                         *)
(*   pc = "start"  : the entry point was called, the File is open at 0     *)
(*   pc = "top" / "kgrp" : inside parse_top_level_chunks / parse_keygroup  *)
(*   pc = "parsed" : parse_top_level_chunks returned Ok                    *)
(*   pc = "done"   : the entry point returned (result)                     *)

Entries == {"run_conversion", "convert_file"}

Formats == {"Sfz", "DecentSampler"}

Pending == [kind |-> "Pending", err |-> NoError, msg |-> "", output |-> None]

\* Err(e) of run_conversion; Err(format!("<msg>{:?}", e)) of convert_file
Failed(e, msg) == [kind |-> "Err", err |-> e, msg |-> msg, output |-> None]

\* Ok(()) of run_conversion; Ok(output) of convert_file
Succeeded(out) == [kind |-> "Ok", err |-> NoError, msg |-> "", output |-> out]

\* The record of the parser's state held by the variables
Cur ==
    [pos |-> pos, pc |-> pc, program |-> program, keygroup |-> keygroup,
     env_count |-> env_count, lfo_count |-> lfo_count, kgrp_end_pos |-> kgrp_end_pos,
     cursor |-> cursor, parse_err |-> parse_err, hdr_reads |-> hdr_reads,
     kg_reads |-> kg_reads]

\* Commit with the error of a chunk swallowed: the loop of
\* parse_top_level_chunks goes on with the next chunk
Commit_resuming(n) ==
    /\ pos' = n.pos
    /\ program' = n.program
    /\ keygroup' = n.keygroup
    /\ env_count' = n.env_count
    /\ lfo_count' = n.lfo_count
    /\ kgrp_end_pos' = n.kgrp_end_pos
    /\ cursor' = n.cursor
    /\ parse_err' = n.parse_err
    /\ hdr_reads' = n.hdr_reads
    /\ kg_reads' = n.kg_reads
    /\ pc' = IF n.pc = "failed" THEN "top" ELSE n.pc
    /\ result' = result

\* The variables take the parser state n; an Err is returned at once by the
\* entry point (operator ?), with convert_file turning it into a String
Commit(n) ==
    /\ pos' = n.pos
    /\ program' = n.program
    /\ keygroup' = n.keygroup
    /\ env_count' = n.env_count
    /\ lfo_count' = n.lfo_count
    /\ kgrp_end_pos' = n.kgrp_end_pos
    /\ cursor' = n.cursor
    /\ parse_err' = n.parse_err
    /\ hdr_reads' = n.hdr_reads
    /\ kg_reads' = n.kg_reads
    /\ IF n.pc = "failed"
       THEN /\ pc' = "done"
            /\ result' = Failed(n.parse_err,
                                IF entry = "convert_file" THEN "Failed to parse AKP chunks: " ELSE "")
       ELSE /\ pc' = n.pc
            /\ result' = result

\* The position at which the entry point e hands the stream to
\* parse_top_level_chunks, p being the position validate_riff_header left:
\* run_conversion passes the file on as it is, convert_file first seeks
\* 4 bytes forward
ParseStart(e, p) == IF e = "convert_file" THEN p + 4 ELSE p

\* The entry point's check of the parsed Program: run_conversion refuses a
\* Program without keygroups, convert_file has no such check
StructureError(e, prog) ==
    IF e = "run_conversion" /\ prog.keygroups = <<>>
    THEN MissingRequiredChunk("keygroup")
    ELSE NoError

\* A generator that keeps a count of its calls and writes it into the
\* documents after the first
Generate_counting(fmt, prog) ==
    (IF fmt = "Sfz" THEN to_sfz_string(prog) ELSE to_dspreset_string(prog))
    \o (IF pc = "rendered" THEN << "// call 2" >> ELSE <<>>)

\* The generator selected by `format`
Generate(fmt, prog) ==
    IF fmt = "Sfz" THEN to_sfz_string(prog) ELSE to_dspreset_string(prog)

\* validate_riff_header, then the hand-over to parse_top_level_chunks
Validate ==
    /\ pc = "start"
    /\ LET v == validate_riff_header(file)
       IN  IF ~IsOk(v.err)
           THEN /\ pos' = v.pos
                /\ parse_err' = v.err
                /\ pc' = "done"
                /\ result' = Failed(v.err, IF entry = "convert_file"
                                           THEN "Invalid AKP file: " ELSE "")
           ELSE /\ pos' = ParseStart(entry, v.pos)
                /\ parse_err' = NoError
                /\ pc' = "top"
                /\ result' = result
    /\ program' = DefaultProgram
    /\ UNCHANGED <<batch, app, channels, workers>>
    /\ UNCHANGED <<entry, format, file, keygroup, env_count, lfo_count, kgrp_end_pos,
                   cursor, written, hdr_reads, kg_reads>>

\* One iteration of the loop of parse_top_level_chunks
TopChunk ==
    /\ pc = "top"
    /\ pos < Len(file)
    /\ \E n \in {TopLevelChunk(file, Cur)} : Commit(n)
    /\ UNCHANGED <<batch, app, channels, workers>>
    /\ UNCHANGED <<entry, format, file, written>>

\* The loop of parse_top_level_chunks ends: Ok(())
TopDone ==
    /\ pc = "top"
    /\ ~(pos < Len(file))
    /\ Commit([Cur EXCEPT !.pc = "parsed"])
    /\ UNCHANGED <<batch, app, channels, workers>>
    /\ UNCHANGED <<entry, format, file, written>>

\* One iteration of the loop of parse_keygroup
KgChunk ==
    /\ pc = "kgrp"
    /\ pos < kgrp_end_pos
    /\ \E n \in {KeygroupChunk(file, Cur)} : Commit(n)
    /\ UNCHANGED <<batch, app, channels, workers>>
    /\ UNCHANGED <<entry, format, file, written>>

\* The loop of parse_keygroup ends: Ok(keygroup), pushed by the caller
KgDone ==
    /\ pc = "kgrp"
    /\ ~(pos < kgrp_end_pos)
    /\ Commit(KeygroupDone(Cur))
    /\ UNCHANGED <<batch, app, channels, workers>>
    /\ UNCHANGED <<entry, format, file, written>>

\* After the parse: the structure check, the generator and, in
\* run_conversion, fs::write of the output file (which may fail)
Finish ==
    /\ pc = "parsed"
    /\ pc' = "done"
    /\ LET e == StructureError(entry, program)
       IN  IF ~IsOk(e)
           THEN /\ result' = Failed(e, "")
                /\ written' = written
           ELSE IF entry = "convert_file"
           THEN /\ result' = Succeeded(Some(Generate(format, program)))
                /\ written' = written
           ELSE \E write_ok \in BOOLEAN :
                    IF write_ok
                    THEN /\ result' = Succeeded(None)
                         /\ written' = Some(Generate(format, program))
                    ELSE /\ result' = Failed(Io, "")
                         /\ written' = written
    /\ UNCHANGED <<batch, app, channels, workers>>
    /\ UNCHANGED <<entry, format, file, pos, program, keygroup, env_count, lfo_count,
                   kgrp_end_pos, cursor, parse_err, hdr_reads, kg_reads>>

Next == Validate \/ TopChunk \/ TopDone \/ KgChunk \/ KgDone \/ Finish

----------------------------------------------------------------------------
(* Input files *)

\* The four bytes of a little-endian u32
U32LE(n) == << n % 256, (n \div 256) % 256, (n \div 65536) % 256, (n \div 16777216) % 256 >>

\* A chunk: tag, declared size, and the payload bytes actually present
Chunk(tag, size, payload) == tag \o U32LE(size) \o payload

\* "junk", a tag the parser does not know
TagJunk == <<106, 117, 110, 107>>

ContainerHeader == RIFF \o U32LE(0) \o APRG

ZoneOk == Chunk(TagZone, 5, <<0, 60, 72, 64, 127>>)

ZoneBadKey == Chunk(TagZone, 5, <<0, 72, 60, 64, 127>>)

EnvChunk == Chunk(TagEnv, 6, <<0, 0, 10, 50, 80, 30>>)

\* The pieces files are concatenated from.  A "kgrp" header piece declares a
\* size and takes its payload from the pieces that follow it: 13 encloses
\* one zone or junk chunk, 26 two of them, 8 one empty junk chunk.  The junk
\* header of size 5 without payload and the 3 bytes "zon" are chunks cut
\* short when nothing follows them.
Pieces ==
    { Chunk(TagPrg, 3, <<0, 5, 2>>),
      Chunk(TagKgrp, 13, <<>>),
      Chunk(TagKgrp, 26, <<>>),
      Chunk(TagKgrp, 8, <<>>),
      Chunk(TagKgrp, 13, <<>>) \o ZoneOk,
      ZoneOk,
      ZoneBadKey,
      EnvChunk,
      Chunk(TagJunk, 5, <<1, 2, 3, 4, 5>>),
      Chunk(TagJunk, 0, <<>>),
      Chunk(TagJunk, 5, <<>>),
      <<122, 111, 110>> }

MaxPieces == 3

RECURSIVE PieceSeqs(_)
\* The sequences of at most n pieces
PieceSeqs(n) ==
    IF n = 0 THEN { <<>> }
    ELSE LET shorter == PieceSeqs(n - 1)
         IN  shorter \cup { Append(ps, p) : ps \in shorter, p \in Pieces }

Files == { ContainerHeader \o Concat(ps) : ps \in PieceSeqs(MaxPieces) }

\* The state at the call of an entry point on the file f
Called(e, fmt, f) ==
    /\ entry = e
    /\ format = fmt
    /\ file = f
    /\ pos = 0
    /\ pc = "start"
    /\ program = DefaultProgram
    /\ keygroup = DefaultKeygroup
    /\ env_count = 0
    /\ lfo_count = 0
    /\ kgrp_end_pos = 0
    /\ cursor = <<>>
    /\ parse_err = NoError
    /\ result = Pending
    /\ written = None
    /\ hdr_reads = <<>>
    /\ kg_reads = <<0, 0, 0>>
    /\ CommandLineOnly

Init == \E e \in Entries, fmt \in Formats, f \in Files : Called(e, fmt, f)

Spec == Init /\ [][Next]_vars

TypeOK ==
    /\ pc \in {"start", "top", "kgrp", "parsed", "done"}
    /\ result.kind \in {"Pending", "Ok", "Err"}
    /\ (pc = "done") = (result.kind # "Pending")

----------------------------------------------------------------------------
(* parse_zone_chunk on its own, as the unit tests call it: a Cursor over a  *)
(* zone payload and a Keygroup.                                             *)
(*   pc = "zone" : before the call;  pc = "zone_done" : after it           *)

\* Values a byte of a zone payload is drawn from
ZoneByte == {0, 60, 64, 72, 127, 128, 255}

ZonePayloads ==
    { <<0, lk, hk, lv, hv>> \o tail :
        lk \in ZoneByte, hk \in ZoneByte, lv \in ZoneByte, hv \in ZoneByte,
        tail \in { <<>>, <<9>> } }

\* The keygroup handed to parse_zone_chunk: a fresh one, or one that an
\* earlier zone and env chunk of the same kgrp chunk have filled
ZoneKeygroups ==
    { DefaultKeygroup,
      [DefaultKeygroup EXCEPT !.low_key = 1, !.high_key = 2, !.low_vel = 3, !.high_vel = 4,
                              !.amp_env = Some([attack |-> 10, decay |-> 50,
                                                sustain |-> 80, release |-> 30])] }

InitZone ==
    \E data \in ZonePayloads, kg \in ZoneKeygroups :
        /\ entry = "parse_zone_chunk"
        /\ format = "Sfz"
        /\ file = <<>>
        /\ pos = 0
        /\ pc = "zone"
        /\ program = DefaultProgram
        /\ keygroup = kg
        /\ env_count = 0
        /\ lfo_count = 0
        /\ kgrp_end_pos = 0
        /\ cursor = data
        /\ parse_err = NoError
        /\ result = Pending
        /\ written = None
        /\ hdr_reads = <<>>
        /\ kg_reads = <<0, 0, 0>>
        /\ CommandLineOnly

\* parse_zone_chunk(&mut cursor, &mut keygroup)
ZoneCall ==
    /\ pc = "zone"
    /\ LET r == parse_zone_chunk(cursor, keygroup)
       IN  /\ keygroup' = r.kg
           /\ parse_err' = r.err
    /\ pc' = "zone_done"
    /\ UNCHANGED <<batch, app, channels, workers>>
    /\ UNCHANGED <<entry, format, file, pos, program, env_count, lfo_count, kgrp_end_pos,
                   cursor, result, written, hdr_reads, kg_reads>>

NextZone == ZoneCall

SpecZone == InitZone /\ [][NextZone]_vars

ZoneFieldsStored ==
    /\ keygroup.low_key = cursor[2]
    /\ keygroup.high_key = cursor[3]
    /\ keygroup.low_vel = cursor[4]
    /\ keygroup.high_vel = cursor[5]

\* C1 as stated: each of the three conditions on the payload bytes yields its
\* own error whenever it holds (InvalidKeyRange when low_key > high_key,
\* InvalidVelocityRange when low_vel > high_vel, InvalidParameterValue with
\* the offending byte when high_key > 127 or high_vel > 127), and every other
\* payload succeeds with bytes 1..4 stored as low_key, high_key, low_vel,
\* high_vel.
C1_AsStated ==
    pc = "zone_done" =>
        LET lk == cursor[2]
            hk == cursor[3]
            lv == cursor[4]
            hv == cursor[5]
        IN  /\ lk > hk => parse_err = InvalidKeyRange(lk, hk)
            /\ lv > hv => parse_err = InvalidVelocityRange(lv, hv)
            /\ (hk > 127 \/ hv > 127) =>
                  \/ hk > 127 /\ parse_err = InvalidParameterValue("high_key", hk)
                  \/ hv > 127 /\ parse_err = InvalidParameterValue("high_vel", hv)
            /\ (lk <= hk /\ lv <= hv /\ hk <= 127 /\ hv <= 127) =>
                  IsOk(parse_err) /\ ZoneFieldsStored

\* C1 (amended): for every zone payload of at least 5 bytes the checks apply
\* in the order key range, velocity range, high_key, high_vel, and the first
\* one that is violated decides the error: InvalidKeyRange(low_key, high_key)
\* when low_key > high_key; otherwise InvalidVelocityRange(low_vel, high_vel)
\* when low_vel > high_vel; otherwise InvalidParameterValue("high_key",
\* high_key) when high_key > 127; otherwise InvalidParameterValue("high_vel",
\* high_vel) when high_vel > 127; in every other case the call succeeds and
\* the keygroup holds bytes 1, 2, 3, 4 as low_key, high_key, low_vel, high_vel.
C1_ZoneValidation ==
    pc = "zone_done" =>
        LET lk == cursor[2]
            hk == cursor[3]
            lv == cursor[4]
            hv == cursor[5]
        IN  /\ lk > hk => parse_err = InvalidKeyRange(lk, hk)
            /\ (lk <= hk /\ lv > hv) => parse_err = InvalidVelocityRange(lv, hv)
            /\ (lk <= hk /\ lv <= hv /\ hk > 127) =>
                  parse_err = InvalidParameterValue("high_key", hk)
            /\ (lk <= hk /\ lv <= hv /\ hk <= 127 /\ hv > 127) =>
                  parse_err = InvalidParameterValue("high_vel", hv)
            /\ (lk <= hk /\ lv <= hv /\ hk <= 127 /\ hv <= 127) =>
                  IsOk(parse_err) /\ ZoneFieldsStored

\* A payload violating both the key order and the velocity order was parsed
C1_Witness ==
    /\ pc = "zone_done"
    /\ cursor[2] > cursor[3]
    /\ cursor[4] > cursor[5]
    /\ parse_err.kind = "InvalidKeyRange"

----------------------------------------------------------------------------
(* Properties of the conversion entry points (Spec)                         *)

\* The parser state in which the entry point e calls parse_top_level_chunks
\* on a valid container
ParseEntry(e) == ParserState(ParseStart(e, 12), DefaultProgram)

\* The errors only parse_zone_chunk's validation raises
IsZoneValidationError(e) ==
    \/ e.kind \in {"InvalidKeyRange", "InvalidVelocityRange"}
    \/ e.kind = "InvalidParameterValue" /\ e.name \in {"high_key", "high_vel"}

\* The Program as it was when the header of the kgrp chunk being parsed (the
\* one whose payload starts at kg_reads[1]) was about to be read: the result
\* of parsing the file cut off at that header
ProgramBeforeKgrp ==
    ParserRun(SubSeq(file, 1, kg_reads[1] - 8), ParseEntry(entry))

\* C2: a zone chunk that fails validation does not mutate the Program: when
\* parse_zone_chunk returns an error inside a kgrp chunk, the Program's header
\* and keygroup sequence are exactly what they were before that kgrp chunk was
\* read.
C2_FailedZoneLeavesProgram ==
    (pc = "done" /\ IsZoneValidationError(parse_err)) =>
        /\ ProgramBeforeKgrp.pc = "parsed"
        /\ program = ProgramBeforeKgrp.program

\* A zone is rejected after a header or a keygroup has entered the Program
C2_Witness ==
    /\ pc = "done"
    /\ IsZoneValidationError(parse_err)
    /\ program.keygroups # <<>>

\* C4 as stated: in run_conversion and in convert_file, a file that passes
\* container validation and parses without error but yields no keygroup ends
\* with the missing-required-chunk error, returns no output text and writes
\* no output file.
C4_AsStated ==
    (pc = "done" /\ IsOk(parse_err) /\ program.keygroups = <<>>) =>
        /\ result.kind = "Err"
        /\ result.err = MissingRequiredChunk("keygroup")
        /\ result.output = None
        /\ written = None

\* The header the parser decodes at offset q of the file
HeaderAt(q) == read_chunk_header(file, q)

\* Where the chunk whose header was the i-th one read lets the next header be
\* read: after its payload, or after its header when it is a kgrp chunk that
\* the top level descends into
NextHeaderOffset(i) ==
    LET r == hdr_reads[i]
        h == HeaderAt(r.at)
    IN  IF r.level = "top" /\ h.id = TagKgrp THEN r.at + 8 ELSE r.at + 8 + h.size

\* C5 as stated: in run_conversion and in convert_file, after successful
\* container validation the first chunk header is read at byte offset 12, and
\* every later chunk header is read at the byte following the previous chunk.
C5_AsStated ==
    \A i \in 1..Len(hdr_reads) :
        hdr_reads[i].at = IF i = 1 THEN 12 ELSE NextHeaderOffset(i - 1)

\* C10 as stated: for a kgrp chunk of declared size S whose payload starts at
\* P, parse_keygroup never reads a byte at offset P + S or beyond, and when it
\* returns successfully the stream position is exactly P + S.
C10_AsStated ==
    [][ /\ kg_reads'[3] <= kg_reads'[1] + kg_reads'[2]
        /\ (pc = "kgrp" /\ pc' = "top") => pos' = kg_reads[1] + kg_reads[2] ]_vars

----------------------------------------------------------------------------
(* Unrecognized chunks (C9) *)

TopLevelTags == {TagPrg, TagKgrp}

NestedTags == {TagZone, TagSmpl, TagTune, TagFilt, TagEnv, TagLfo, TagMods}

\* The next iteration reads, at pos, a complete header whose tag the current
\* nesting level does not recognize
AtUnknownChunk ==
    /\ IsOk(HeaderAt(pos).err)
    /\ \/ pc = "top" /\ pos < Len(file) /\ HeaderAt(pos).id \notin TopLevelTags
       \/ pc = "kgrp" /\ pos < kgrp_end_pos /\ HeaderAt(pos).id \notin NestedTags

\* The chunk at pos lies within the region being parsed
ChunkInRegion ==
    \/ pc = "top"
    \/ pc = "kgrp" /\ pos + 8 + HeaderAt(pos).size <= kgrp_end_pos

\* The iteration over the chunk at pos raises no error, advances the stream
\* by exactly 8 + declared size and changes nothing of the Program or of the
\* keygroup under construction
SkippedAsNoOp ==
    /\ IsOk(parse_err')
    /\ pc' = pc
    /\ pos' = pos + 8 + HeaderAt(pos).size
    /\ program' = program
    /\ keygroup' = keygroup
    /\ env_count' = env_count
    /\ lfo_count' = lfo_count

\* The file without the chunk at pos; when the chunk is nested, the size
\* field of the enclosing kgrp header (the 4 bytes before its payload start
\* kg_reads[1]) is reduced by the length of the chunk
WithoutChunkAtPos ==
    LET n    == 8 + HeaderAt(pos).size
        rest == SubSeq(file, pos + n + 1, Len(file))
    IN  IF pc = "top" THEN SubSeq(file, 1, pos) \o rest
        ELSE SubSeq(file, 1, kg_reads[1] - 4) \o U32LE(kg_reads[2] - n)
             \o SubSeq(file, kg_reads[1] + 1, pos) \o rest

\* What a parse of the file f by the entry point in `entry` yields
ParseOutcome(f) ==
    LET r == ParserRun(f, ParseEntry(entry))
    IN  [program |-> r.program, err |-> r.parse_err]



\* C9 as stated: a chunk with an unrecognized tag, at top level or nested in
\* a kgrp chunk, is never an error: the parser advances the stream by exactly
\* 8 + declared size bytes, continues with the next chunk, and the resulting
\* Program is identical to the one parsed from the same stream with that chunk
\* removed and the enclosing kgrp size reduced accordingly.
C9_AsStated ==
    [][ (AtUnknownChunk /\ ChunkInRegion) =>
            /\ SkippedAsNoOp
            /\ ParseOutcome(file) = ParseOutcome(WithoutChunkAtPos) ]_vars

\* The payload of the nested chunk at pos is present in the stream
NestedPayloadPresent == CanRead(file, pos + 8, HeaderAt(pos).size)

\* C9 (amended): a chunk with an unrecognized tag is never an error at top
\* level; nested in a kgrp chunk it is no error when its declared payload
\* bytes are present in the stream, and fails with the I/O error when the
\* stream ends before them.  When it is no error the parser advances the
\* stream by exactly 8 + declared size bytes past the chunk's start and
\* continues with the next chunk, and the resulting Program is identical to
\* the one parsed from the same stream with that chunk removed (and the
\* enclosing kgrp size reduced accordingly), provided that size stays at
\* least 1: a kgrp chunk of size 0 is an InvalidChunkSize error.
C9_UnknownChunkSkipped ==
    [][ (AtUnknownChunk /\ ChunkInRegion) =>
            IF pc = "kgrp" /\ ~NestedPayloadPresent
            THEN parse_err' = Io
            ELSE /\ SkippedAsNoOp
                 /\ (pc = "top" \/ kg_reads[2] - (8 + HeaderAt(pos).size) >= 1) =>
                        ParseOutcome(file) = ParseOutcome(WithoutChunkAtPos) ]_vars

\* A conversion succeeded on a file in which an unrecognized chunk was read
\* at top level and another one inside a kgrp chunk
C9_Witness ==
    /\ pc = "done"
    /\ result.kind = "Ok"
    /\ \E i \in 1..Len(hdr_reads) :
          hdr_reads[i].level = "kgrp" /\ HeaderAt(hdr_reads[i].at).id = TagJunk
    /\ \E i \in 1..Len(hdr_reads) :
          hdr_reads[i].level = "top" /\ HeaderAt(hdr_reads[i].at).id = TagJunk

----------------------------------------------------------------------------
(* Container validation (C6): files of at least 12 bytes with every          *)
(* combination of outer signature, size field and inner signature.          *)

OuterSignatures == { RIFF, <<82, 73, 70, 88>>, <<114, 105, 102, 102>>, <<255, 73, 70, 70>>, APRG }

SizeFields == { <<0, 0, 0, 0>>, <<255, 255, 255, 255>>, RIFF, APRG }

InnerSignatures == { APRG, <<65, 80, 82, 88>>, <<65, 80, 82, 255>>, <<0, 0, 0, 0>>, RIFF }

Tails == { <<>>, Chunk(TagPrg, 3, <<0, 5, 2>>), Chunk(TagKgrp, 13, <<>>) \o ZoneOk }

RiffFiles ==
    { o \o z \o i \o t : o \in OuterSignatures, z \in SizeFields, i \in InnerSignatures,
                         t \in Tails }

InitRiff == \E e \in Entries, fmt \in Formats, f \in RiffFiles : Called(e, fmt, f)

SpecRiff == InitRiff /\ [][Next]_vars

\* The file f with its bytes 4..7 replaced by z
WithSizeField(f, z) == SubSeq(f, 1, 4) \o z \o SubSeq(f, 9, Len(f))

\* C6: validate_riff_header on a stream of at least 12 bytes returns
\* InvalidRiffHeader exactly when bytes 0..3 are not "RIFF", returns
\* InvalidAprgSignature exactly when bytes 0..3 are "RIFF" and bytes 8..11 are
\* not "APRG", and returns Ok otherwise; the value of bytes 4..7 never
\* influences the outcome.
C6_ContainerValidation ==
    [][ (pc = "start" /\ Len(file) >= 12) =>
            /\ parse_err' = IF Slice(file, 0, 4) # RIFF THEN InvalidRiffHeader
                            ELSE IF Slice(file, 8, 4) # APRG THEN InvalidAprgSignature
                            ELSE NoError
            /\ \A z \in SizeFields :
                  validate_riff_header(WithSizeField(file, z)).err = parse_err' ]_vars

\* A container with a size field that reads "APRG" and a wrong inner
\* signature was rejected for its inner signature
C6_Witness ==
    /\ pc = "done"
    /\ Slice(file, 4, 4) = APRG
    /\ parse_err = InvalidAprgSignature

----------------------------------------------------------------------------
(* Truncated streams (C7): every prefix of two complete files.              *)

CompleteFiles ==
    { ContainerHeader \o Chunk(TagPrg, 3, <<0, 5, 2>>) \o Chunk(TagKgrp, 26, <<>>) \o ZoneOk
          \o Chunk(TagJunk, 5, <<1, 2, 3, 4, 5>>) \o Chunk(TagJunk, 0, <<>>),
      ContainerHeader \o Chunk(TagKgrp, 27, <<>>) \o EnvChunk \o ZoneOk
          \o Chunk(TagPrg, 3, <<0, 5, 2>>) }

TruncatedFiles == UNION { { SubSeq(f, 1, n) : n \in 0..Len(f) } : f \in CompleteFiles }

InitTrunc == \E e \in Entries, fmt \in Formats, f \in TruncatedFiles : Called(e, fmt, f)

SpecTrunc == InitTrunc /\ [][Next]_vars

\* The read the next step needs and the stream cannot complete
RiffSignatureCut == pc = "start" /\ ~CanRead(file, 0, 4)

AprgSignatureCut ==
    pc = "start" /\ CanRead(file, 0, 4) /\ Slice(file, 0, 4) = RIFF /\ ~CanRead(file, 8, 4)

ChunkHeaderCut ==
    /\ \/ pc = "top" /\ pos < Len(file)
       \/ pc = "kgrp" /\ pos < kgrp_end_pos
    /\ ~CanRead(file, pos, 8)

PrgPayloadCut ==
    /\ pc = "top" /\ pos < Len(file) /\ CanRead(file, pos, 8)
    /\ HeaderAt(pos).id = TagPrg /\ HeaderAt(pos).size >= 3
    /\ ~CanRead(file, pos + 8, HeaderAt(pos).size)

NestedPayloadCut ==
    /\ pc = "kgrp" /\ pos < kgrp_end_pos /\ CanRead(file, pos, 8)
    /\ ~CanRead(file, pos + 8, HeaderAt(pos).size)

\* C7 as stated: whenever the stream ends before a required read completes
\* (the RIFF signature, the APRG signature, an 8-byte chunk header, a prg
\* payload, or a nested chunk payload), parsing fails with AkpError::Io and
\* with no other error kind.
C7_AsStated ==
    [][ (RiffSignatureCut \/ AprgSignatureCut \/ ChunkHeaderCut \/ PrgPayloadCut
         \/ NestedPayloadCut) => parse_err'.kind = "Io" ]_vars

\* C7 (amended): whenever the stream ends before a required read completes,
\* parsing fails: with the I/O error kind (AkpError::Io) when the read is an
\* 8-byte chunk header or a nested chunk payload, and with CorruptedChunk
\* naming "RIFF", "APRG" or "prg" when the read is the RIFF signature, the
\* APRG signature or a prg payload; with no other error kind.
C7_TruncatedReads ==
    [][ /\ (ChunkHeaderCut \/ NestedPayloadCut) => parse_err' = Io
        /\ RiffSignatureCut =>
              parse_err' = CorruptedChunk("RIFF", "Failed to read RIFF signature")
        /\ AprgSignatureCut =>
              parse_err' = CorruptedChunk("APRG", "Failed to read APRG signature")
        /\ PrgPayloadCut =>
              parse_err' = CorruptedChunk("prg", "Failed to read chunk data") ]_vars

\* A file cut inside a chunk header that follows a parsed keygroup failed
\* with the I/O error
C7_Witness ==
    /\ pc = "done"
    /\ parse_err = Io
    /\ program.keygroups # <<>>
    /\ hdr_reads # <<>>
    /\ ~CanRead(file, hdr_reads[Len(hdr_reads)].at, 8)

----------------------------------------------------------------------------
(* Declared sizes (C8): one chunk of every recognized tag with every         *)
(* declared size up to MaxSize and every number of payload bytes present.   *)

MaxSize == 9

\* The payload bytes: a valid zone, sample name, tune, filter, envelope, LFO
\* and modulation at the offsets of each layout
PayloadBytes(n) ==
    [i \in 1..n |-> IF i <= 9 THEN <<0, 10, 20, 30, 40, 1, 2, 3, 4>>[i] ELSE 7]

SizedFiles ==
    { ContainerHeader \o Chunk(tag, size, PayloadBytes(n)) :
        tag \in TopLevelTags, size \in 0..MaxSize, n \in 0..MaxSize }
    \cup
    { ContainerHeader \o Chunk(TagKgrp, 8 + size, <<>>) \o Chunk(tag, size, PayloadBytes(n)) :
        tag \in NestedTags, size \in 0..MaxSize, n \in 0..MaxSize }

InitSized == \E e \in Entries, fmt \in Formats, f \in SizedFiles : Called(e, fmt, f)

SpecSized == InitSized /\ [][Next]_vars

\* The minimum payload size of the chunk the next iteration reads at pos,
\* 0 when the current nesting level does not recognize its tag
MinSizeAtPos ==
    LET id == HeaderAt(pos).id
    IN  IF pc = "top" THEN (IF id = TagPrg THEN 3 ELSE IF id = TagKgrp THEN 1 ELSE 0)
        ELSE IF id = TagZone THEN 5 ELSE IF id = TagSmpl THEN 3 ELSE IF id = TagTune THEN 5
        ELSE IF id = TagFilt THEN 8 ELSE IF id = TagEnv THEN 6 ELSE IF id = TagLfo THEN 9
        ELSE IF id = TagMods THEN 4 ELSE 0

\* The tag as the error carries it
TagName(id) ==
    IF id = TagPrg THEN "prg" ELSE IF id = TagKgrp THEN "kgrp" ELSE IF id = TagZone THEN "zone"
    ELSE IF id = TagSmpl THEN "smpl" ELSE IF id = TagTune THEN "tune"
    ELSE IF id = TagFilt THEN "filt" ELSE IF id = TagEnv THEN "env"
    ELSE IF id = TagLfo THEN "lfo" ELSE IF id = TagMods THEN "mods" ELSE "?"

\* The next iteration reads at pos a complete header declaring less than the
\* minimum size of its tag
AtUndersizedChunk ==
    /\ \/ pc = "top" /\ pos < Len(file)
       \/ pc = "kgrp" /\ pos < kgrp_end_pos
    /\ CanRead(file, pos, 8)
    /\ HeaderAt(pos).size < MinSizeAtPos

\* C8 as stated: whenever a chunk header declares a size below the minimum
\* for its tag (prg < 3, kgrp < 1, zone < 5, smpl < 3, tune < 5, filt < 8,
\* env < 6, lfo < 9, mods < 4), parsing fails with InvalidChunkSize carrying
\* that tag and the declared size, whatever bytes follow the header.
C8_AsStated ==
    [][ AtUndersizedChunk =>
            parse_err' = InvalidChunkSize(TagName(HeaderAt(pos).id), HeaderAt(pos).size) ]_vars

\* C8 (amended): whenever a chunk header declares a size below the minimum
\* for its tag, parsing fails with InvalidChunkSize carrying that tag and the
\* declared size: for prg and kgrp whatever bytes follow the header, for the
\* tags nested in a kgrp chunk when the declared number of payload bytes
\* follows the header in the stream; when the stream ends before them, the
\* nested chunk fails with the I/O error instead.
C8_UndersizedChunks ==
    [][ AtUndersizedChunk =>
            IF pc = "kgrp" /\ ~NestedPayloadPresent
            THEN parse_err' = Io
            ELSE parse_err' = InvalidChunkSize(TagName(HeaderAt(pos).id),
                                               HeaderAt(pos).size) ]_vars

\* An lfo chunk declaring 8 bytes, all of them present, was rejected
C8_Witness ==
    /\ pc = "done"
    /\ parse_err = InvalidChunkSize("lfo", 8)
    /\ Len(file) >= 36

----------------------------------------------------------------------------
(* Tune chunks rendered (C3): parse_tune_chunk on a payload, the Tune put   *)
(* into the only keygroup of a Program, the Program rendered.               *)
(*   pc = "tune" -> "render" -> "rendered"                                  *)

TuneLevels == {0, 50, 75, 85, 100}

\* 244 is -12, 220 is -36 as i8
TuneSemitones == {0, 12, 36, 220, 244}

\* 231 is -25, 206 is -50 as i8
TuneFines == {0, 25, 50, 206, 231}

InitTune ==
    \E l \in TuneLevels, st \in TuneSemitones, ft \in TuneFines, fmt \in Formats :
        /\ entry = "to_sfz_string"
        /\ format = fmt
        /\ file = <<>>
        /\ pos = 0
        /\ pc = "tune"
        /\ program = DefaultProgram
        /\ keygroup = DefaultKeygroup
        /\ env_count = 0
        /\ lfo_count = 0
        /\ kgrp_end_pos = 0
        /\ cursor = <<0, 0, l, st, ft>>
        /\ parse_err = NoError
        /\ result = Pending
        /\ written = None
        /\ hdr_reads = <<>>
        /\ kg_reads = <<0, 0, 0>>
        /\ CommandLineOnly

\* keygroup.tune = Some(parse_tune_chunk(&mut cursor)?); program.keygroups.push(keygroup)
TuneCall ==
    /\ pc = "tune"
    /\ LET r  == parse_tune_chunk(cursor)
           kg == [keygroup EXCEPT !.tune = r.val]
       IN  /\ parse_err' = r.err
           /\ program' = [program EXCEPT !.keygroups = Append(@, kg)]
    /\ pc' = "render"
    /\ UNCHANGED <<batch, app, channels, workers>>
    /\ UNCHANGED <<entry, format, file, pos, keygroup, env_count, lfo_count, kgrp_end_pos,
                   cursor, result, written, hdr_reads, kg_reads>>

\* program.to_sfz_string() or program.to_dspreset_string()
Render ==
    /\ pc = "render"
    /\ result' = Succeeded(Some(Generate(format, program)))
    /\ pc' = "rendered"
    /\ UNCHANGED <<batch, app, channels, workers>>
    /\ UNCHANGED <<entry, format, file, pos, program, keygroup, env_count, lfo_count,
                   kgrp_end_pos, cursor, parse_err, written, hdr_reads, kg_reads>>

NextTune == TuneCall \/ Render

SpecTune == InitTune /\ [][NextTune]_vars

\* The document `out` has the line l
HasLine(out, l) == \E i \in 1..Len(out) : out[i] = l

\* C3 as stated: a keygroup whose Tune is level=75, semitone=-12,
\* fine_tune=25 (tune bytes [0,0,75,-12,25]) is rendered by the opcode
\* generator with the lines volume=-12.00, tune=-12 and fine_tune=25.
C3_AsStated ==
    (pc = "rendered" /\ format = "Sfz" /\ cursor = <<0, 0, 75, 244, 25>>) =>
        /\ HasLine(result.output[1], "volume=-12.00")
        /\ HasLine(result.output[1], "tune=-12")
        /\ HasLine(result.output[1], "fine_tune=25")

----------------------------------------------------------------------------
(* Error propagation (C11), under Spec                                      *)

\* The prefix convert_file puts before the Debug text of the error of the
\* step taken at pc; run_conversion returns the error itself
ErrorPrefix ==
    IF entry = "run_conversion" THEN ""
    ELSE IF pc = "start" THEN "Invalid AKP file: "
    ELSE "Failed to parse AKP chunks: "

\* C11 as stated: when any parse step fails, parsing of that file stops at
\* the failing chunk, the typed error reaches the caller, and no partially
\* built Program is left for use: the Program object handed to the parser
\* holds no header or keygroups from the failed file, no generator runs and
\* no output is written.
C11_AsStated ==
    (pc = "done" /\ ~IsOk(parse_err)) =>
        /\ result.kind = "Err"
        /\ result.err = parse_err
        /\ result.output = None
        /\ written = None
        /\ program.header = None
        /\ program.keygroups = <<>>

\* C11 (amended): when any parse step fails, parsing of that file stops at
\* the failing chunk (no later chunk is read and no further step is taken),
\* the error reaches the caller (as the AkpError from run_conversion, as a
\* message holding its Debug text from convert_file), no generator runs and
\* no output is returned or written.  The Program object handed to the
\* parser is filled in place: at the failure it holds the header and the
\* keygroups of the chunks parsed before the failing one, and nothing of the
\* failing chunk or of the keygroup under construction.
C11_ErrorAborts ==
    [][ /\ IsOk(parse_err)
        /\ ~IsOk(parse_err') =>
              /\ pc' = "done"
              /\ result' = Failed(parse_err', ErrorPrefix)
              /\ written' = None
              /\ program' = program
              /\ \A i \in 1..Len(hdr_reads') : hdr_reads'[i].at <= pos ]_vars

\* run_conversion failed on a chunk cut short, with bytes of it left in the
\* file, after a header had entered the Program
C11_Witness ==
    /\ pc = "done"
    /\ entry = "run_conversion"
    /\ result = Failed(Io, "")
    /\ parse_err = Io
    /\ program.header # None
    /\ pos < Len(file)

----------------------------------------------------------------------------
(* The generators on their own, as the unit tests call them: a Program is   *)
(* built field by field and rendered, then rendered once more.             *)
(*   pc = "render" -> "rendered" -> "rendered2"                            *)

MaxKeygroups == 3

MaxMods == 3

MaxRaw == 100

\* "a.wav", "d\b" (with a backslash) and "<region>"
NameWav == <<97, 46, 119, 97, 118>>

NameBackslash == <<100, 92, 98>>

NameRegion == <<60, 114, 101, 103, 105, 111, 110, 62>>

Envelope(a, d, s, r) == [attack |-> a, decay |-> d, sustain |-> s, release |-> r]

Filter(c, q, t) == [cutoff |-> c, resonance |-> q, filter_type |-> t]

Lfo(w, r, d, p) == [waveform |-> w, rate |-> r, delay |-> d, depth |-> p]

Modulation(s, d, a) == [source |-> s, destination |-> d, amount |-> a]

\* Keygroups with fields present and absent in several combinations
KeygroupPool ==
    { DefaultKeygroup,
      [DefaultKeygroup EXCEPT !.low_key = 36, !.high_key = 60, !.high_vel = 127,
                              !.sample = Some([filename |-> NameWav])],
      [DefaultKeygroup EXCEPT !.low_key = 61, !.high_key = 96, !.low_vel = 1, !.high_vel = 100,
                              !.sample = Some([filename |-> NameBackslash]),
                              !.amp_env = Some(Envelope(20, 40, 80, 60))],
      [DefaultKeygroup EXCEPT !.high_key = 127, !.high_vel = 127,
                              !.sample = Some([filename |-> NameRegion])],
      [DefaultKeygroup EXCEPT !.low_key = 12, !.high_key = 24, !.low_vel = 64, !.high_vel = 127,
                              !.sample = Some([filename |-> NameWav]),
                              !.tune = Some([level |-> 85, semitone |-> -12, fine_tune |-> 25]),
                              !.filter = Some(Filter(50, 25, 1)),
                              !.amp_env = Some(Envelope(0, 5, 100, 0)),
                              !.filter_env = Some(Envelope(10, 20, 30, 40)),
                              !.aux_env = Some(Envelope(1, 2, 3, 4)),
                              !.lfo1 = Some(Lfo(1, 30, 0, 50)),
                              !.lfo2 = Some(Lfo(9, 100, 20, 50)),
                              !.mods = << Modulation(0, 0, 100), Modulation(99, 1, 50) >>],
      [DefaultKeygroup EXCEPT !.high_key = 59, !.high_vel = 127,
                              !.filter = Some(Filter(100, 0, 3)),
                              !.lfo2 = Some(Lfo(0, 0, 1, 0))] }

RECURSIVE SeqsUpTo(_, _)
\* The sequences of at most n elements of S
SeqsUpTo(S, n) ==
    IF n = 0 THEN { <<>> }
    ELSE LET shorter == SeqsUpTo(S, n - 1)
         IN  shorter \cup { Append(q, x) : q \in shorter, x \in S }

\* Modulation entries, mapped ones and ones with a source or a destination
\* outside the enumerations
ModPool ==
    { Modulation(0, 0, 50), Modulation(12, 17, 100), Modulation(6, 1, 0),
      Modulation(13, 0, 50), Modulation(5, 18, 0), Modulation(255, 255, 100) }

ProgramOf(kgs) == [header |-> None, keygroups |-> kgs]

\* A Program of one keygroup that has the given modulations and nothing else
ModProgram(mods) == ProgramOf(<< [DefaultKeygroup EXCEPT !.mods = mods] >>)

EnvProgram(env) == ProgramOf(<< [DefaultKeygroup EXCEPT !.amp_env = Some(env)] >>)

FilterProgram(f) == ProgramOf(<< [DefaultKeygroup EXCEPT !.filter = Some(f)] >>)

GenPrograms ==
    { ProgramOf(kgs) : kgs \in SeqsUpTo(KeygroupPool, MaxKeygroups) }
    \cup { ModProgram(mods) : mods \in SeqsUpTo(ModPool, MaxMods) }
    \cup { ModProgram(<< Modulation(s, d, a) >>) : s \in {0, 12}, d \in 0..17, a \in 0..MaxRaw }
    \cup { EnvProgram(Envelope(a, d, 80, r)) : a \in 0..MaxRaw, d \in {0, 40}, r \in {0, 60} }
    \cup { EnvProgram(Envelope(a, d, 80, r)) : a \in {0, 20}, d \in 0..MaxRaw, r \in {0, 60} }
    \cup { EnvProgram(Envelope(a, d, 80, r)) : a \in {0, 20}, d \in {0, 40}, r \in 0..MaxRaw }
    \cup { FilterProgram(Filter(c, q, t)) : c \in 0..MaxRaw, q \in {0, 25, 100}, t \in 0..3 }

InitGen ==
    \E fmt \in Formats, prog \in GenPrograms :
        /\ entry = IF fmt = "Sfz" THEN "to_sfz_string" ELSE "to_dspreset_string"
        /\ format = fmt
        /\ file = <<>>
        /\ pos = 0
        /\ pc = "render"
        /\ program = prog
        /\ keygroup = DefaultKeygroup
        /\ env_count = 0
        /\ lfo_count = 0
        /\ kgrp_end_pos = 0
        /\ cursor = <<>>
        /\ parse_err = NoError
        /\ result = Pending
        /\ written = None
        /\ hdr_reads = <<>>
        /\ kg_reads = <<0, 0, 0>>
        /\ CommandLineOnly

\* A second call of the same generator on the same Program (&self)
RenderAgain ==
    /\ pc = "rendered"
    /\ result' = Succeeded(Some(Generate(format, program)))
    /\ pc' = "rendered2"
    /\ UNCHANGED <<batch, app, channels, workers>>
    /\ UNCHANGED <<entry, format, file, pos, program, keygroup, env_count, lfo_count,
                   kgrp_end_pos, cursor, parse_err, written, hdr_reads, kg_reads>>

NextGen == Render \/ RenderAgain

SpecGen == InitGen /\ [][NextGen]_vars

\* The document the last generator call returned
Out == result.output[1]

\* The file is rendered in the opcode format / in the XML format
SfzRendered == pc \in {"rendered", "rendered2"} /\ format = "Sfz"

XmlRendered == pc \in {"rendered", "rendered2"} /\ format = "DecentSampler"

\* The indices of the lines of `out` equal to l, in increasing order
RECURSIVE LinesAt(_, _, _)
LinesAt(out, l, from) ==
    IF from > Len(out) THEN <<>>
    ELSE (IF out[from] = l THEN << from >> ELSE <<>>) \o LinesAt(out, l, from + 1)

\* The i-th block of `out` among those that start at the lines `starts`:
\* from its start line up to the line before the next start (or the end)
Block(out, starts, i) ==
    SubSeq(out, starts[i], IF i < Len(starts) THEN starts[i + 1] - 1 ELSE Len(out))

----------------------------------------------------------------------------
(* Shape of the documents (C12), under SpecGen                              *)

\* The number of places at which the code points `pat` occur in `s`
Occurrences(pat, s) ==
    Cardinality({ i \in 1..(Len(s) - Len(pat) + 1) : SubSeq(s, i, i + Len(pat) - 1) = pat })

RECURSIVE MarkersInNames(_)
\* The occurrences of the region marker in the sample lines of the
\* keygroups kgs: the file name is written as it is, \ replaced by /
MarkersInNames(kgs) ==
    IF kgs = <<>> THEN 0
    ELSE (IF IsSome(Head(kgs).sample)
          THEN Occurrences(NameRegion, Replace(Head(kgs).sample[1].filename, 92, 47))
          ELSE 0)
         + MarkersInNames(Tail(kgs))

\* sfz.matches("<region>").count(): the marker lines and the markers inside
\* the sample lines; no other line of the document holds a '<'
RegionMarkerCount == Len(LinesAt(Out, "<region>", 1)) + MarkersInNames(program.keygroups)

\* The lines of the i-th group element: from the line after the previous
\* closing tag (after <groups> for the first) to its closing tag
GroupBlock(i) ==
    LET ends  == LinesAt(Out, "    </group>", 1)
        first == IF i = 1 THEN LinesAt(Out, "  <groups>", 1)[1] + 1 ELSE ends[i - 1] + 1
    IN  SubSeq(Out, first, ends[i])

\* The sample element of a keygroup that has a sample and no tune
PlainSampleElement(kg) ==
    "      <sample path=\"" \o StrOf(kg.sample[1].filename)
    \o "\" loNote=\"" \o Dec(kg.low_key) \o "\" hiNote=\"" \o Dec(kg.high_key)
    \o "\" loVel=\"" \o Dec(kg.low_vel) \o "\" hiVel=\"" \o Dec(kg.high_vel) \o "\" />"

\* C12 as stated: for every Program with N keygroups the opcode output
\* contains exactly N region markers and the XML output exactly N group
\* elements, the i-th region and the i-th group carrying the key/velocity
\* range and the sample of the i-th keygroup in Program order.
C12_AsStated ==
    LET kgs == program.keygroups
        N   == Len(kgs)
    IN  /\ SfzRendered =>
              LET starts == LinesAt(Out, "<region>", 1)
              IN  /\ RegionMarkerCount = N
                  /\ Len(starts) = N
                  /\ \A i \in 1..N :
                        LET b == Block(Out, starts, i)
                        IN  /\ HasLine(b, "lokey=" \o Dec(kgs[i].low_key))
                            /\ HasLine(b, "hikey=" \o Dec(kgs[i].high_key))
                            /\ HasLine(b, "lovel=" \o Dec(kgs[i].low_vel))
                            /\ HasLine(b, "hivel=" \o Dec(kgs[i].high_vel))
                            /\ IsSome(kgs[i].sample) =>
                                  HasLine(b, "sample=" \o
                                      StrOf(Replace(kgs[i].sample[1].filename, 92, 47)))
        /\ XmlRendered =>
              /\ Len(LinesAt(Out, "    </group>", 1)) = N
              /\ \A i \in 1..N :
                    /\ Len(GroupBlock(i)) = 3
                    /\ (IsSome(kgs[i].sample) /\ ~IsSome(kgs[i].tune)) =>
                          GroupBlock(i)[2] = PlainSampleElement(kgs[i])

----------------------------------------------------------------------------
(* Modulation lines (C13, C14), under SpecGen                               *)

\* The Program is one keygroup that has modulations and nothing else
IsModProgram ==
    /\ Len(program.keygroups) = 1
    /\ program = ModProgram(program.keygroups[1].mods)

\* The source and the destination of m are in the enumerations
IsMapped(m) == m.source \in 0..12 /\ m.destination \in 0..17

\* The modulation lines of the document `out` of such a Program: the lines
\* between the key/velocity range and the fixed opcodes
ModLines(out) ==
    SubSeq(out, LinesAt(out, "hivel=0", 1)[1] + 1, LinesAt(out, "polyphony=64", 1)[1] - 1)

\* The modulation lines written for the single entry m
LinesOfEntry(m) == ModLines(to_sfz_string(ModProgram(<< m >>)))

\* C13: for every keygroup's modulation sequence, the opcode generator emits
\* exactly one source_to_destination line for each entry with source in
\* 0..12 and destination in 0..17, in the sequence's order, and emits
\* nothing for an entry with source > 12 or destination > 17; dropping such
\* an entry raises no error and leaves the lines of all other entries of the
\* same keygroup unchanged.
C13_ModulationLines ==
    (SfzRendered /\ IsModProgram) =>
        LET mods   == program.keygroups[1].mods
            mapped == SelectSeq(mods, IsMapped)
            lines  == ModLines(Out)
        IN  /\ result.kind = "Ok"
            /\ Len(lines) = Len(mapped)
            /\ \A j \in 1..Len(mapped) : << lines[j] >> = LinesOfEntry(mapped[j])
            /\ \A j \in 1..Len(mods) :
                  Len(LinesOfEntry(mods[j])) = IF IsMapped(mods[j]) THEN 1 ELSE 0
            /\ Out = to_sfz_string(ModProgram(mapped))
            /\ \A j \in 1..Len(mapped) :
                  /\ mapped[j] = Modulation(0, 0, 50) => lines[j] = "lfo1_to_pitch=0.0"
                  /\ mapped[j] = Modulation(6, 1, 0) => lines[j] = "lfo2_to_cutoff=-9600.0"
                  /\ mapped[j] = Modulation(12, 17, 100) =>
                        lines[j] = "expression_to_pitchlfo_depth=1200.0"

\* Three entries were rendered, the middle one with a source outside the
\* enumeration, the other two mapped and different
C13_Witness ==
    /\ SfzRendered
    /\ IsModProgram
    /\ Len(program.keygroups[1].mods) = 3
    /\ IsMapped(program.keygroups[1].mods[1])
    /\ program.keygroups[1].mods[2].source > 12
    /\ IsMapped(program.keygroups[1].mods[3])
    /\ program.keygroups[1].mods[1] # program.keygroups[1].mods[3]
    /\ Len(ModLines(Out)) = 2

\* The scale of each destination 0..17
ScaleTable ==
    [d \in 0..17 |->
        IF d = 0 THEN 12
        ELSE IF d \in {1, 16} THEN 9600
        ELSE IF d = 2 THEN 40
        ELSE IF d = 3 THEN 60
        ELSE IF d \in {4, 9, 13, 15} THEN 100
        ELSE IF d \in {5, 6} THEN 20
        ELSE IF d = 17 THEN 1200
        ELSE 10]

\* ((amount / 100) * 2 - 1) * scale in tenths, to the nearest tenth
BipolarTenths(amount, scale) == ((2 * amount - 100) * scale + 5) \div 10

\* C14: for every modulation entry with source in 0..12, destination in
\* 0..17 and amount in 0..100, the value rendered on its line equals
\* ((amount/100)*2 - 1) * scale(destination), printed with one decimal, where
\* scale is the fixed table 0:12, 1:9600, 2:40, 3:60, 4:100, 5:20, 6:20,
\* 7:10, 8:10, 9:100, 10:10, 11:10, 12:10, 13:100, 14:10, 15:100, 16:9600,
\* 17:1200; so amount 50 renders 0 and amounts 0 and 100 render -scale and
\* +scale.
C14_ModulationAmount ==
    (SfzRendered /\ IsModProgram /\ Len(program.keygroups[1].mods) = 1) =>
        LET m     == program.keygroups[1].mods[1]
            name  == SfzSource[m.source + 1] \o "_to_" \o SfzDestination[m.destination + 1] \o "="
            scale == ScaleTable[m.destination]
        IN  (IsMapped(m) /\ m.amount \in 0..100) =>
                /\ ModLines(Out) = << name \o Fixed(BipolarTenths(m.amount, scale), 1) >>
                /\ m.amount = 50 => ModLines(Out) = << name \o "0.0" >>
                /\ m.amount = 0 => ModLines(Out) = << name \o "-" \o ToString(scale) \o ".0" >>
                /\ m.amount = 100 => ModLines(Out) = << name \o ToString(scale) \o ".0" >>

\* An amount of 51 towards the pitch was rendered: 0.24 semitones, printed
\* with one decimal
C14_Witness ==
    /\ SfzRendered
    /\ IsModProgram
    /\ program.keygroups[1].mods = << Modulation(0, 0, 51) >>
    /\ ModLines(Out) = << "lfo1_to_pitch=0.2" >>

----------------------------------------------------------------------------
(* Curves of the opcode generator (C15, C16, C20), under SpecGen            *)

\* The Program is one keygroup that has an amp envelope and nothing else
IsEnvProgram ==
    /\ Len(program.keygroups) = 1
    /\ IsSome(program.keygroups[1].amp_env)
    /\ program = EnvProgram(program.keygroups[1].amp_env[1])

\* C15: for every amp-envelope raw value in 0..100, the opcode generator's
\* attack_time and decay_time are non-negative, non-decreasing in the raw
\* value, and equal to 0 exactly when the raw value is 0; release_time is
\* never less than 0.001.
C15_AmpEnvelopeTimes ==
    (SfzRendered /\ IsEnvProgram) =>
        LET env == program.keygroups[1].amp_env[1]
            a   == env.attack
            d   == env.decay
            r   == env.release
        IN  (a \in 0..100 /\ d \in 0..100 /\ r \in 0..100) =>
                /\ Out[8] = "ampeg_attack=" \o Fixed(amp_attack_time(a), 3)
                /\ Out[9] = "ampeg_decay=" \o Fixed(amp_decay_time(d), 3)
                /\ Out[11] = "ampeg_release=" \o Fixed(amp_release_time(r), 3)
                /\ amp_attack_time(a) >= 0
                /\ amp_decay_time(d) >= 0
                /\ (amp_attack_time(a) = 0) = (a = 0)
                /\ (amp_decay_time(d) = 0) = (d = 0)
                /\ (Out[8] = "ampeg_attack=0.000") = (a = 0)
                /\ (Out[9] = "ampeg_decay=0.000") = (d = 0)
                /\ a > 0 => amp_attack_time(a - 1) <= amp_attack_time(a)
                /\ d > 0 => amp_decay_time(d - 1) <= amp_decay_time(d)
                /\ amp_release_time(r) >= 1
                /\ r > 0 => amp_release_time(r - 1) <= amp_release_time(r)

\* An envelope with attack 100, decay 0 and release 0 was rendered
C15_Witness ==
    /\ SfzRendered
    /\ IsEnvProgram
    /\ Out[8] = "ampeg_attack=0.055"
    /\ Out[9] = "ampeg_decay=0.000"
    /\ Out[11] = "ampeg_release=0.001"

\* The Program is one keygroup that has a filter and nothing else
IsFilterProgram ==
    /\ Len(program.keygroups) = 1
    /\ IsSome(program.keygroups[1].filter)
    /\ program = FilterProgram(program.keygroups[1].filter[1])

\* C16: for every filter cutoff raw value in 0..100 (filter_type > 0), the
\* opcode generator's cutoff_hz = 20 * 1000^(cutoff/100) is strictly
\* increasing in the raw value, equals 20 at raw 0 and 20000 at raw 100, and
\* renders as cutoff=632.5 at raw 50.
C16_CutoffCurve ==
    (SfzRendered /\ IsFilterProgram) =>
        LET filter == program.keygroups[1].filter[1]
            c      == filter.cutoff
        IN  (filter.filter_type > 0 /\ c \in 0..100) =>
                /\ Out[9] = "cutoff=" \o Fixed(cutoff_hz(c), 1)
                /\ c > 0 => cutoff_hz(c - 1) < cutoff_hz(c)
                /\ c = 0 => cutoff_hz(c) = 200 /\ Out[9] = "cutoff=20.0"
                /\ c = 100 => cutoff_hz(c) = 200000 /\ Out[9] = "cutoff=20000.0"
                /\ c = 50 => Out[9] = "cutoff=632.5"

\* A highpass filter with cutoff 50 was rendered
C16_Witness ==
    /\ SfzRendered
    /\ IsFilterProgram
    /\ program.keygroups[1].filter[1].filter_type = 3
    /\ Out[8] = "fil_type=hpf_2p"
    /\ Out[9] = "cutoff=632.5"

\* C20 as stated: the opcode generator renders filter resonance at 0.24 dB
\* per raw unit: a filter with cutoff=50, resonance=25, filter_type=1 renders
\* fil_type=lpf_2p and resonance=6.0.
C20_AsStated ==
    (SfzRendered /\ program = FilterProgram(Filter(50, 25, 1))) =>
        /\ HasLine(Out, "fil_type=lpf_2p")
        /\ HasLine(Out, "resonance=6.0")

----------------------------------------------------------------------------
(* Repeated rendering (C17) and the fixed opcodes (C18), under SpecGen      *)

Region(i) == Block(Out, LinesAt(Out, "<region>", 1), i)

\* The region b holds the polyphony and pitch-bend opcodes
HasVoiceOpcodes(b) ==
    /\ HasLine(b, "polyphony=64")
    /\ HasLine(b, "note_polyphony=1")
    /\ HasLine(b, "bend_up=200")
    /\ HasLine(b, "bend_down=-200")

\* The region b holds the three loop-mode opcodes / none of them
HasLoopOpcodes(b) ==
    /\ HasLine(b, "loop_mode=loop_continuous")
    /\ HasLine(b, "loop_start=0")
    /\ HasLine(b, "loop_end=0")

HasNoLoopOpcode(b) ==
    /\ ~HasLine(b, "loop_mode=loop_continuous")
    /\ ~HasLine(b, "loop_start=0")
    /\ ~HasLine(b, "loop_end=0")

\* C18 as stated: every region of the opcode output, for every keygroup
\* whatever fields it has present or absent, contains the trailing fixed
\* opcodes: the loop-mode opcodes, polyphony=64, note_polyphony=1,
\* bend_up=200 and bend_down=-200.
C18_AsStated ==
    SfzRendered =>
        \A i \in 1..Len(program.keygroups) :
            HasLoopOpcodes(Region(i)) /\ HasVoiceOpcodes(Region(i))

\* C18 (amended): every region of the opcode output, for every keygroup
\* whatever fields it has present or absent, contains polyphony=64,
\* note_polyphony=1, bend_up=200 and bend_down=-200; it contains the
\* loop-mode opcodes (loop_mode=loop_continuous, loop_start=0, loop_end=0)
\* exactly when the keygroup has a sample.
C18_FixedOpcodes ==
    SfzRendered =>
        /\ Len(LinesAt(Out, "<region>", 1)) = Len(program.keygroups)
        /\ \A i \in 1..Len(program.keygroups) :
              /\ HasVoiceOpcodes(Region(i))
              /\ IF IsSome(program.keygroups[i].sample)
                 THEN HasLoopOpcodes(Region(i))
                 ELSE HasNoLoopOpcode(Region(i))

\* Two regions were rendered, the first of a keygroup without a sample, the
\* second of a keygroup with one
C18_Witness ==
    /\ SfzRendered
    /\ Len(program.keygroups) = 2
    /\ ~IsSome(program.keygroups[1].sample)
    /\ IsSome(program.keygroups[2].sample)
    /\ HasNoLoopOpcode(Region(1))
    /\ HasLoopOpcodes(Region(2))

----------------------------------------------------------------------------
(* Envelope and LFO slots (C19): files of one kgrp chunk holding a sequence *)
(* of env, lfo and unknown chunks, and files of two short kgrp chunks.      *)

MaxNested == 5

\* An env chunk with attack, decay, sustain and release 10k+1 .. 10k+4, an
\* lfo chunk with waveform k and rate, delay, depth 10k+1 .. 10k+3
EnvPiece(k) == Chunk(TagEnv, 6, <<0, 0, 10 * k + 1, 10 * k + 2, 10 * k + 3, 10 * k + 4>>)

LfoPiece(k) ==
    Chunk(TagLfo, 9, <<0, 0, 0, 0, 0, k, 10 * k + 1, 10 * k + 2, 10 * k + 3>>)

NestedPool == { EnvPiece(1), EnvPiece(2), LfoPiece(1), LfoPiece(2), Chunk(TagJunk, 0, <<>>) }

\* A kgrp chunk holding the chunks cs
KgrpOf(cs) == Chunk(TagKgrp, Len(Concat(cs)), Concat(cs))

SlotFiles ==
    { ContainerHeader \o KgrpOf(cs) : cs \in SeqsUpTo(NestedPool, MaxNested) }
    \cup { ContainerHeader \o KgrpOf(<< c1, c2 >>) \o KgrpOf(<< c3 >>) :
             c1 \in NestedPool, c2 \in NestedPool, c3 \in NestedPool }

InitSlots == \E e \in Entries, fmt \in Formats, f \in SlotFiles : Called(e, fmt, f)

SpecSlots == InitSlots /\ [][Next]_vars

\* The offsets of the nested headers with the tag `tag` read so far in the
\* kgrp chunk parsed last, in reading order
NestedReads(tag) ==
    LET InKgrp(r) == r.level = "kgrp" /\ r.at >= kg_reads[1] /\ Slice(file, r.at, 4) = tag
    IN  SelectSeq(hdr_reads, InKgrp)

\* The Envelope and the Lfo in the payload of the chunk whose header is at p
EnvelopeAt(p) == Envelope(file[p + 11], file[p + 12], file[p + 13], file[p + 14])

LfoAt(p) == Lfo(file[p + 14], file[p + 15], file[p + 16], file[p + 17])

\* The n-th of the chunks read at `reads`, if there is one
NthEnvelope(reads, n) == IF Len(reads) >= n THEN Some(EnvelopeAt(reads[n].at)) ELSE None

NthLfo(reads, n) == IF Len(reads) >= n THEN Some(LfoAt(reads[n].at)) ELSE None

\* The keygroup kg holds what the env and lfo chunks read so far gave it
SlotsFilled(kg) ==
    /\ kg.amp_env = NthEnvelope(NestedReads(TagEnv), 1)
    /\ kg.filter_env = NthEnvelope(NestedReads(TagEnv), 2)
    /\ kg.aux_env = NthEnvelope(NestedReads(TagEnv), 3)
    /\ kg.lfo1 = NthLfo(NestedReads(TagLfo), 1)
    /\ kg.lfo2 = NthLfo(NestedReads(TagLfo), 2)

\* C19: within one keygroup, for any sequence of nested chunks, the 1st
\* successfully parsed env chunk becomes amp_env, the 2nd filter_env, the 3rd
\* aux_env, the 1st lfo chunk lfo1 and the 2nd lfo2; every later env or lfo
\* chunk is consumed from the stream but changes no slot, and the env and lfo
\* counters are independent of each other and of other chunk types
\* interleaved between them.
C19_SlotAssignment ==
    /\ pc = "kgrp" =>
          /\ SlotsFilled(keygroup)
          /\ env_count = Len(NestedReads(TagEnv))
          /\ lfo_count = Len(NestedReads(TagLfo))
          /\ \A i \in 1..Len(hdr_reads) :
                (i = Len(hdr_reads) /\ hdr_reads[i].level = "kgrp") =>
                    pos = hdr_reads[i].at + 8 + LE32(Slice(file, hdr_reads[i].at + 4, 4))
    /\ (pc \in {"top", "parsed", "done"} /\ IsOk(parse_err) /\ program.keygroups # <<>>) =>
          SlotsFilled(program.keygroups[Len(program.keygroups)])

\* run_conversion parsed a keygroup of four env chunks with an lfo chunk
\* among them, the fourth envelope different from the third
C19_Witness ==
    /\ pc = "done"
    /\ entry = "run_conversion"
    /\ IsOk(parse_err)
    /\ Len(program.keygroups) = 1
    /\ Len(NestedReads(TagEnv)) = 4
    /\ Len(NestedReads(TagLfo)) = 1
    /\ NestedReads(TagLfo)[1].at < NestedReads(TagEnv)[4].at
    /\ EnvelopeAt(NestedReads(TagEnv)[4].at) # EnvelopeAt(NestedReads(TagEnv)[3].at)
    /\ program.keygroups[1].aux_env = Some(EnvelopeAt(NestedReads(TagEnv)[3].at))

----------------------------------------------------------------------------
(* Amp-envelope opcodes of a region (C21), under SpecGen                    *)

\* The lines the generator can write for the four amp-envelope opcodes:
\* the computed ones for raw values 0..127 and the default ones
AmpegLines ==
    { "ampeg_attack=" \o Fixed(amp_attack_time(r), 3) : r \in 0..127 }
    \cup { "ampeg_decay=" \o Fixed(amp_decay_time(r), 3) : r \in 0..127 }
    \cup { "ampeg_sustain=" \o Dec(r) : r \in 0..255 }
    \cup { "ampeg_release=" \o Fixed(amp_release_time(r), 3) : r \in 0..127 }
    \cup { "ampeg_attack=0.001", "ampeg_decay=0.1", "ampeg_sustain=100", "ampeg_release=0.3" }

\* The amp-envelope opcode lines of the region b, in order
AmpegOf(b) ==
    LET IsAmpeg(l) == l \in AmpegLines
    IN  SelectSeq(b, IsAmpeg)

\* The amp-envelope opcode lines computed from the envelope env
AmpegComputed(env) ==
    << "ampeg_attack=" \o Fixed(amp_attack_time(env.attack), 3),
       "ampeg_decay=" \o Fixed(amp_decay_time(env.decay), 3),
       "ampeg_sustain=" \o Dec(env.sustain),
       "ampeg_release=" \o Fixed(amp_release_time(env.release), 3) >>

AmpegDefault ==
    << "ampeg_attack=0.001", "ampeg_decay=0.1", "ampeg_sustain=100", "ampeg_release=0.3" >>

\* C21: every region of the opcode output contains exactly one set of
\* ampeg_attack/ampeg_decay/ampeg_sustain/ampeg_release lines: the values
\* computed from amp_env when the keygroup has one, and the fixed fallback
\* 0.001 / 0.1 / 100 / 0.3 exactly when it has none.
C21_OneAmpEnvelope ==
    SfzRendered =>
        /\ Len(LinesAt(Out, "<region>", 1)) = Len(program.keygroups)
        /\ \A i \in 1..Len(program.keygroups) :
              LET kg == program.keygroups[i]
              IN  AmpegOf(Region(i)) =
                      IF IsSome(kg.amp_env) THEN AmpegComputed(kg.amp_env[1]) ELSE AmpegDefault

\* Two regions were rendered, the first of a keygroup with an amp envelope
\* whose lines differ from the default ones, the second of one without
C21_Witness ==
    /\ SfzRendered
    /\ Len(program.keygroups) = 2
    /\ IsSome(program.keygroups[1].amp_env)
    /\ ~IsSome(program.keygroups[2].amp_env)
    /\ AmpegOf(Region(1)) = << "ampeg_attack=0.002", "ampeg_decay=0.005", "ampeg_sustain=80",
                               "ampeg_release=0.020" >>
    /\ AmpegOf(Region(2)) = AmpegDefault

----------------------------------------------------------------------------
(* Envelope attributes of the XML group (C22), under SpecGen                *)

\* The opening line of the first group, of a keygroup that has no tune, with
\* the envelope attributes a, d, r in thousandths and the raw sustain s
GroupLine(a, d, s, r) ==
    "    <group name=\"Group1\" attack=\"" \o Fixed(a, 3) \o "\" decay=\"" \o Fixed(d, 3)
    \o "\" sustain=\"" \o Fixed(s * 10, 3) \o "\" release=\"" \o Fixed(r, 3) \o "\">"

\* The opcode generator renders the envelope env of the Program with the
\* attack, decay and release times a, d, r (in thousandths)
OpcodeTimes(a, d, r) ==
    LET sfz == to_sfz_string(program)
    IN  /\ HasLine(sfz, "ampeg_attack=" \o Fixed(a, 3))
        /\ HasLine(sfz, "ampeg_decay=" \o Fixed(d, 3))
        /\ HasLine(sfz, "ampeg_release=" \o Fixed(r, 3))

\* C22 as stated: for every keygroup with an amp envelope and every raw
\* value in 0..100, the XML group's attack, decay and release attributes
\* are computed by the same transform as the opcode generator's
\* amp-envelope attack, decay and release, the only difference being that
\* XML decay and release are 0.1 when their raw value is 0.
C22_AsStated ==
    (XmlRendered /\ IsEnvProgram) =>
        LET env == program.keygroups[1].amp_env[1]
            a   == amp_attack_time(env.attack)
            d   == amp_decay_time(env.decay)
            r   == amp_release_time(env.release)
        IN  (env.attack \in 0..100 /\ env.decay \in 0..100 /\ env.release \in 0..100) =>
                /\ OpcodeTimes(a, d, r)
                /\ HasLine(Out, GroupLine(a,
                                          IF env.decay = 0 THEN 100 ELSE d,
                                          env.sustain,
                                          IF env.release = 0 THEN 100 ELSE r))

\* C22 (amended): for every keygroup with an amp envelope and every raw
\* value in 0..100, the XML group's attack, decay and release attributes
\* are computed by the same transform as the opcode generator's
\* amp-envelope attack, decay and release whenever the raw value is not 0;
\* for a raw value of 0 the XML attack is 0.001 (opcode generator: 0), the
\* XML decay is 0.1 (opcode generator: 0) and the XML release is 0.1
\* (opcode generator: 0.001).
C22_GroupEnvelope ==
    (XmlRendered /\ IsEnvProgram) =>
        LET env == program.keygroups[1].amp_env[1]
            a   == amp_attack_time(env.attack)
            d   == amp_decay_time(env.decay)
            r   == amp_release_time(env.release)
        IN  (env.attack \in 0..100 /\ env.decay \in 0..100 /\ env.release \in 0..100) =>
                /\ OpcodeTimes(a, d, r)
                /\ env.attack = 0 => a = 0
                /\ env.decay = 0 => d = 0
                /\ env.release = 0 => r = 1
                /\ HasLine(Out, GroupLine(IF env.attack = 0 THEN 1 ELSE a,
                                          IF env.decay = 0 THEN 100 ELSE d,
                                          env.sustain,
                                          IF env.release = 0 THEN 100 ELSE r))

\* An envelope with raw attack, decay and release 0 was rendered in the XML
\* format
C22_Witness ==
    /\ XmlRendered
    /\ IsEnvProgram
    /\ program.keygroups[1].amp_env[1] = Envelope(0, 0, 80, 0)
    /\ HasLine(Out, "    <group name=\"Group1\" attack=\"0.001\" decay=\"0.100\" sustain=\"0.800\" release=\"0.100\">")

----------------------------------------------------------------------------
(* Modulators and effects blocks of the XML document (C23), under SpecGen   *)

\* The lines of `out` after the first line `open` and before the first line
\* `close`
Between(out, open, close) ==
    SubSeq(out, LinesAt(out, open, 1)[1] + 1, LinesAt(out, close, 1)[1] - 1)

LowpassElement == "    <lowpass frequency=\"FILTER_CUTOFF\" resonance=\"FILTER_RESONANCE\" />"

ReverbElement ==
    "    <reverb roomSize=\"0.5\" damping=\"0.5\" wetLevel=\"0.3\" dryLevel=\"0.7\" width=\"1.0\" />"

\* The lfo binding of the LFO lfo
LfoBinding(lfo) ==
    "    <lfo frequency=\"" \o Fixed(LfoFreqHz[lfo.rate + 1], 2) \o "\" waveform=\""
    \o LfoWaveform(lfo.waveform, "sine") \o "\" target=\"FILTER_CUTOFF\" amount=\"0.3\" />"

\* The bindings of the lfo1 of the keygroups that have one, in keygroup order
RECURSIVE Lfo1Bindings(_)
Lfo1Bindings(kgs) ==
    IF kgs = <<>> THEN <<>>
    ELSE (IF IsSome(Head(kgs).lfo1) THEN << LfoBinding(Head(kgs).lfo1[1]) >> ELSE <<>>)
         \o Lfo1Bindings(Tail(kgs))

\* C23: the XML output contains a modulators block exactly when at least one
\* keygroup has an LFO, and that block contains exactly one lfo binding per
\* keygroup that has an lfo1, in keygroup order, and none for lfo2; the
\* effects block contains the lowpass element exactly when at least one
\* keygroup has a filter, and always contains the reverb element.
C23_ModulatorsAndEffects ==
    XmlRendered =>
        LET kgs        == program.keygroups
            has_lfo    == \E i \in 1..Len(kgs) : IsSome(kgs[i].lfo1) \/ IsSome(kgs[i].lfo2)
            has_filter == \E i \in 1..Len(kgs) : IsSome(kgs[i].filter)
        IN  /\ Len(LinesAt(Out, "  <modulators>", 1)) = (IF has_lfo THEN 1 ELSE 0)
            /\ Len(LinesAt(Out, "  </modulators>", 1)) = (IF has_lfo THEN 1 ELSE 0)
            /\ has_lfo => Between(Out, "  <modulators>", "  </modulators>") = Lfo1Bindings(kgs)
            /\ Len(LinesAt(Out, "  <effects>", 1)) = 1
            /\ Len(LinesAt(Out, "  </effects>", 1)) = 1
            /\ Between(Out, "  <effects>", "  </effects>") =
                  (IF has_filter THEN << LowpassElement >> ELSE <<>>) \o << ReverbElement >>
            /\ Len(LinesAt(Out, LowpassElement, 1)) = (IF has_filter THEN 1 ELSE 0)
            /\ Len(LinesAt(Out, ReverbElement, 1)) = 1

\* A Program of two keygroups was rendered, the first with a filter and an
\* lfo2 but no lfo1, the second with an lfo1 and an lfo2: the modulators
\* block holds the one binding of the second keygroup
C23_Witness ==
    /\ XmlRendered
    /\ Len(program.keygroups) = 2
    /\ IsSome(program.keygroups[1].filter)
    /\ IsSome(program.keygroups[1].lfo2)
    /\ ~IsSome(program.keygroups[1].lfo1)
    /\ IsSome(program.keygroups[2].lfo1)
    /\ IsSome(program.keygroups[2].lfo2)
    /\ Between(Out, "  <modulators>", "  </modulators>")
          = << LfoBinding(program.keygroups[2].lfo1[1]) >>
    /\ Between(Out, "  <effects>", "  </effects>") = << LowpassElement, ReverbElement >>

----------------------------------------------------------------------------
(* Keygroups and header of a parsed Program (C24): files of up to MaxTop    *)
(* top-level chunks.                                                        *)

MaxTop == 4

ZoneLow == Chunk(TagZone, 5, <<0, 10, 20, 1, 100>>)

\* Two prg chunks with different contents, two kgrp chunks with different
\* zones, an unknown chunk, and a kgrp chunk of declared size 8 whose one
\* nested chunk declares 21 payload bytes (the length of a kgrp chunk that
\* holds one zone chunk) and brings none
TopPool ==
    { Chunk(TagPrg, 3, <<0, 5, 2>>),
      Chunk(TagPrg, 3, <<0, 7, 9>>),
      KgrpOf(<< ZoneOk >>),
      KgrpOf(<< ZoneLow >>),
      Chunk(TagJunk, 0, <<>>),
      Chunk(TagKgrp, 8, <<>>) \o Chunk(TagJunk, 21, <<>>) }

TopFiles == { ContainerHeader \o Concat(cs) : cs \in SeqsUpTo(TopPool, MaxTop) }

InitTop == \E e \in Entries, fmt \in Formats, f \in TopFiles : Called(e, fmt, f)

SpecTop == InitTop /\ [][Next]_vars

\* The chunks of the stream f from offset p on, each one starting where the
\* declared size of the one before it ends
RECURSIVE StreamChunks(_, _)
StreamChunks(f, p) ==
    IF p + 8 > Len(f) THEN <<>>
    ELSE LET size == LE32(Slice(f, p + 4, 4))
         IN  << [at |-> p, tag |-> Slice(f, p, 4), size |-> size] >>
             \o StreamChunks(f, p + 8 + size)

\* The top-level chunks of `file` with the tag `tag`, in file order
TopLevelChunks(tag) ==
    LET HasTag(c) == c.tag = tag
    IN  SelectSeq(StreamChunks(file, 12), HasTag)

\* The chunk c of `file`, header and declared payload, as a stream of its own
ChunkAlone(c) == ContainerHeader \o SubSeq(file, c.at + 1, Min(Len(file), c.at + 8 + c.size))

\* What parse_top_level_chunks makes of the chunk c alone
ProgramOfChunk(c) == ParserRun(ChunkAlone(c), ParserState(12, DefaultProgram)).program

\* parse_top_level_chunks returned Ok
ParsedOk == pc \in {"parsed", "done"} /\ IsOk(parse_err)

\* C24 as stated: after a successful parse, the Program's keygroup sequence
\* has exactly one entry per top-level kgrp chunk of the stream, in file
\* order, whatever value the header's number_of_keygroups holds and also
\* when no prg chunk is present; when several prg chunks are present the
\* header is that of the last one.
C24_AsStated ==
    ParsedOk =>
        LET kgrps == TopLevelChunks(TagKgrp)
            prgs  == TopLevelChunks(TagPrg)
        IN  /\ Len(program.keygroups) = Len(kgrps)
            /\ \A i \in 1..Len(kgrps) :
                  i <= Len(program.keygroups) =>
                      << program.keygroups[i] >> = ProgramOfChunk(kgrps[i]).keygroups
            /\ program.header =
                  IF prgs = <<>> THEN None ELSE ProgramOfChunk(prgs[Len(prgs)]).header

----------------------------------------------------------------------------
(* Termination of the parse (C25): an entry point is called on a file and   *)
(* runs to its return (the code is sequential).                             *)
(*   pc = "idle" -> "start" -> ... -> "done"                                *)

MaxChunks == 2

\* Chunks of known and unknown tags: a kgrp chunk holding an unknown chunk of
\* declared size 0, chunks with their payload, and chunks declaring more
\* bytes than the stream has left
TermPieces ==
    { Chunk(TagPrg, 3, <<0, 5, 2>>),
      KgrpOf(<< Chunk(TagJunk, 0, <<>>) >>),
      KgrpOf(<< ZoneOk >>),
      Chunk(TagKgrp, 100, <<>>),
      Chunk(TagEnv, 6, <<0, 0, 1>>),
      Chunk(TagJunk, 0, <<>>),
      Chunk(TagJunk, 5, <<>>) }

TermFiles == { ContainerHeader \o Concat(cs) : cs \in SeqsUpTo(TermPieces, MaxChunks) }

\* The variables of the entry points and the parser
nonbatch_vars ==
    <<entry, format, file, pos, pc, program, keygroup, env_count, lfo_count, kgrp_end_pos,
      cursor, parse_err, result, written, hdr_reads, kg_reads>>

\* No entry point was called from the command line; fmt is the format chosen
NotCalled(fmt) ==
    /\ entry = "run_conversion"
    /\ format = fmt
    /\ file = <<>>
    /\ pos = 0
    /\ pc = "idle"
    /\ program = DefaultProgram
    /\ keygroup = DefaultKeygroup
    /\ env_count = 0
    /\ lfo_count = 0
    /\ kgrp_end_pos = 0
    /\ cursor = <<>>
    /\ parse_err = NoError
    /\ result = Pending
    /\ written = None
    /\ hdr_reads = <<>>
    /\ kg_reads = <<0, 0, 0>>

\* Before the call
InitTerm ==
    /\ entry = "run_conversion"
    /\ format = "Sfz"
    /\ file = <<>>
    /\ pos = 0
    /\ pc = "idle"
    /\ program = DefaultProgram
    /\ keygroup = DefaultKeygroup
    /\ env_count = 0
    /\ lfo_count = 0
    /\ kgrp_end_pos = 0
    /\ cursor = <<>>
    /\ parse_err = NoError
    /\ result = Pending
    /\ written = None
    /\ hdr_reads = <<>>
    /\ kg_reads = <<0, 0, 0>>
    /\ CommandLineOnly

\* An entry point is called on a file
Call ==
    /\ pc = "idle"
    /\ pc' = "start"
    /\ entry' \in Entries
    /\ file' \in TermFiles
    /\ UNCHANGED <<batch, app, channels, workers>>
    /\ UNCHANGED <<format, pos, program, keygroup, env_count, lfo_count, kgrp_end_pos, cursor,
                   parse_err, result, written, hdr_reads, kg_reads>>

NextTerm == Call \/ Next

SpecTerm == InitTerm /\ [][NextTerm]_vars /\ WF_vars(NextTerm)

\* C25: parsing terminates on every finite input: each iteration of the
\* top-level loop and of the keygroup loop either returns an error or
\* strictly advances the stream position by at least 8 bytes, so both loops
\* exit after finitely many iterations for any chunk tags and declared sizes
\* (including size 0 for unknown or nested chunks and sizes that exceed the
\* remaining bytes).
C25_ParsingTerminates ==
    /\ [][ hdr_reads' # hdr_reads =>
              \/ ~IsOk(parse_err') /\ pc' = "done"
              \/ pos' >= pos + 8 ]_vars
    /\ [](hdr_reads # <<>> => 8 * (Len(hdr_reads) - 1) <= Len(file) - 12)
    /\ <>(pc \in {"parsed", "done"})

\* run_conversion returned Ok for a file of three chunks: one nested in a
\* kgrp chunk and declaring size 0, the last one declaring more bytes than
\* the stream has left
C25_Witness ==
    /\ pc = "done"
    /\ entry = "run_conversion"
    /\ result.kind = "Ok"
    /\ Len(hdr_reads) = 3
    /\ hdr_reads[2].level = "kgrp"
    /\ LE32(Slice(file, hdr_reads[2].at + 4, 4)) = 0
    /\ hdr_reads[3].level = "top"
    /\ hdr_reads[3].at + 8 + LE32(Slice(file, hdr_reads[3].at + 4, 4)) > Len(file)
    /\ pos > Len(file)

----------------------------------------------------------------------------
(* Keygroups of a parsed Program (C26): files of one kgrp chunk holding up  *)
(* to MaxFields chunks with valid and invalid contents.                     *)

MaxFields == 3

\* Zones in and out of order and range, filters of type 3 and 4, a sample
\* with a name and one without, an envelope and an LFO
FieldPool ==
    { Chunk(TagZone, 5, <<0, 0, 127, 127, 127>>),
      Chunk(TagZone, 5, <<0, 60, 59, 0, 127>>),
      Chunk(TagZone, 5, <<0, 60, 72, 100, 99>>),
      Chunk(TagZone, 5, <<0, 60, 128, 0, 127>>),
      Chunk(TagZone, 5, <<0, 60, 72, 0, 128>>),
      Chunk(TagFilt, 8, <<0, 0, 50, 25, 0, 0, 0, 3>>),
      Chunk(TagFilt, 8, <<0, 0, 50, 25, 0, 0, 0, 4>>),
      Chunk(TagSmpl, 4, <<0, 0, 97, 0>>),
      Chunk(TagSmpl, 4, <<0, 0, 0, 97>>),
      EnvPiece(1),
      LfoPiece(1) }

FieldFiles == { ContainerHeader \o KgrpOf(cs) : cs \in SeqsUpTo(FieldPool, MaxFields) }

InitFields == \E e \in Entries, fmt \in Formats, f \in FieldFiles : Called(e, fmt, f)

SpecFields == InitFields /\ [][Next]_vars

\* The keygroup kg has its optional parts in slot order and its values in
\* range
KeygroupWellFormed(kg) ==
    /\ IsSome(kg.filter_env) => IsSome(kg.amp_env)
    /\ IsSome(kg.aux_env) => IsSome(kg.filter_env)
    /\ IsSome(kg.lfo2) => IsSome(kg.lfo1)
    /\ kg.low_key <= kg.high_key
    /\ kg.high_key <= 127
    /\ kg.low_vel <= kg.high_vel
    /\ kg.high_vel <= 127
    /\ IsSome(kg.filter) => kg.filter[1].filter_type <= 3
    /\ IsSome(kg.sample) => kg.sample[1].filename # <<>>

\* C26: in every Program produced by a successful parse, each keygroup
\* satisfies: filter_env present implies amp_env present, aux_env present
\* implies filter_env present, lfo2 present implies lfo1 present,
\* low_key <= high_key <= 127, low_vel <= high_vel <= 127, any filter has
\* filter_type <= 3 and any sample has a non-empty filename.
C26_KeygroupsWellFormed ==
    ParsedOk =>
        \A i \in 1..Len(program.keygroups) : KeygroupWellFormed(program.keygroups[i])

\* run_conversion parsed a keygroup with a zone up to key and velocity 127,
\* a filter of type 3 and a named sample
C26_Witness ==
    /\ pc = "done"
    /\ entry = "run_conversion"
    /\ ParsedOk
    /\ Len(program.keygroups) = 1
    /\ program.keygroups[1].high_key = 127
    /\ program.keygroups[1].high_vel = 127
    /\ IsSome(program.keygroups[1].filter)
    /\ program.keygroups[1].filter[1].filter_type = 3
    /\ IsSome(program.keygroups[1].sample)

----------------------------------------------------------------------------
(* The entry points as functions of the file's bytes *)

\* run_conversion on an existing file f: validate_riff_header, the parse
\* from the position it left, the structure check, the generator and
\* fs::write, which succeeds or not as write_ok says
run_conversion(fmt, f, write_ok) ==
    LET v == validate_riff_header(f)
    IN  IF ~IsOk(v.err) THEN Failed(v.err, "")
        ELSE LET s == ParserRun(f, ParserState(ParseStart("run_conversion", v.pos),
                                               DefaultProgram))
                 e == StructureError("run_conversion", s.program)
             IN  IF s.pc = "failed" THEN Failed(s.parse_err, "")
                 ELSE IF ~IsOk(e) THEN Failed(e, "")
                 ELSE IF write_ok THEN Succeeded(None)
                 ELSE Failed(Io, "")

\* convert_file on the bytes f of an opened file
convert_file(f, fmt) ==
    LET v == validate_riff_header(f)
    IN  IF ~IsOk(v.err) THEN Failed(v.err, "Invalid AKP file: ")
        ELSE LET s == ParserRun(f, ParserState(ParseStart("convert_file", v.pos),
                                               DefaultProgram))
             IN  IF s.pc = "failed"
                 THEN Failed(s.parse_err, "Failed to parse AKP chunks: ")
                 ELSE Succeeded(Some(Generate(fmt, s.program)))

\* The two functions return what the step-by-step run of the entry point
\* returns
EntryPointsAgree ==
    pc = "done" =>
        IF entry = "convert_file"
        THEN result = convert_file(file, format)
        ELSE result \in { run_conversion(format, file, w) : w \in BOOLEAN }

----------------------------------------------------------------------------
(* run_batch_conversion.                                                    *)
(*   batch.pc = "start"    : at the call                                    *)
(*   batch.pc = "loop"     : at the head of the loop over akp_files         *)
(*   batch.pc = "returned" : after the return, batch.result is "Ok"/"Err"   *)
(* batch.attempts is history: the names run_conversion was called on.       *)

\* A directory entry: its file name, the extension Path::extension gives
\* it, and the bytes of the file
DirEntry(name, ext, data) == [name |-> name, ext |-> ext, data |-> data]

\* A file that converts, a file with a wrong signature, a container without
\* keygroups, and two files that are not "akp" by extension
EntryPool ==
    { DirEntry("good.akp", Some("akp"), ContainerHeader \o KgrpOf(<< ZoneOk >>)),
      DirEntry("bad.akp", Some("akp"), <<82, 73, 70, 88, 0, 0, 0, 0, 65, 80, 82, 71>>),
      DirEntry("empty.akp", Some("akp"), ContainerHeader),
      DirEntry("LOUD.AKP", Some("AKP"), ContainerHeader \o KgrpOf(<< ZoneOk >>)),
      DirEntry("notes", None, <<>>) }

MaxEntries == 3

\* The listings read_dir can give: entries of distinct names, in any order
Directories ==
    { d \in SeqsUpTo(EntryPool, MaxEntries) :
        \A i \in 1..Len(d), j \in 1..Len(d) : i # j => d[i] # d[j] }

\* The entries of the listing d that the batch collects
AkpFiles(d) == SelectSeq(d, LAMBDA e : e.ext = Some("akp"))

InitBatch ==
    \E fmt \in Formats, kind \in {"missing", "file", "dir"}, d \in Directories :
        /\ NotCalled(fmt)
        /\ batch = [NoBatch EXCEPT !.pc = "start", !.path_kind = kind,
                                   !.directory = IF kind = "dir" THEN d ELSE <<>>]
        /\ app = DefaultApp
        /\ channels = <<>>
        /\ workers = <<>>

\* From the call to the loop: the checks of the path, read_dir (which may
\* fail) and the collection of the .akp files
BatchList ==
    /\ batch.pc = "start"
    /\ IF batch.path_kind # "dir"
       THEN batch' = [batch EXCEPT !.pc = "returned", !.result = "Err"]
       ELSE \E read_ok \in BOOLEAN :
               IF ~read_ok
               THEN batch' = [batch EXCEPT !.pc = "returned", !.result = "Err"]
               ELSE LET found == AkpFiles(batch.directory)
                    IN  IF found = <<>>
                        THEN batch' = [batch EXCEPT !.pc = "returned", !.result = "Ok",
                                                    !.akp_files = found]
                        ELSE batch' = [batch EXCEPT !.pc = "loop", !.akp_files = found]
    /\ UNCHANGED <<app, channels, workers>>
    /\ UNCHANGED nonbatch_vars

\* A loop of the batch that gives up at the first file that fails
batch_iteration_stop_on_error(b, r) ==
    IF r.kind = "Ok"
    THEN [b EXCEPT !.i = @ + 1, !.success_count = @ + 1,
                   !.attempts = Append(@, b.akp_files[b.i + 1].name)]
    ELSE [b EXCEPT !.pc = "returned", !.result = "Err",
                   !.attempts = Append(@, b.akp_files[b.i + 1].name)]

\* The locals after the iteration of the loop in which run_conversion
\* returned r
batch_iteration(b, r) ==
    IF r.kind = "Ok"
    THEN [b EXCEPT !.i = @ + 1, !.success_count = @ + 1,
                   !.attempts = Append(@, b.akp_files[b.i + 1].name)]
    ELSE [b EXCEPT !.i = @ + 1, !.error_count = @ + 1,
                   !.errors = Append(@, << b.akp_files[b.i + 1].name, r.err >>),
                   !.attempts = Append(@, b.akp_files[b.i + 1].name)]

\* One iteration of the loop over akp_files
BatchConvert ==
    /\ batch.pc = "loop"
    /\ batch.i < Len(batch.akp_files)
    /\ \E write_ok \in BOOLEAN :
          batch' = batch_iteration(batch,
                       run_conversion(format, batch.akp_files[batch.i + 1].data, write_ok))
    /\ UNCHANGED <<app, channels, workers>>
    /\ UNCHANGED nonbatch_vars

\* After the loop: the summary, then Ok(())
BatchReturn ==
    /\ batch.pc = "loop"
    /\ batch.i = Len(batch.akp_files)
    /\ batch' = [batch EXCEPT !.pc = "returned", !.result = "Ok"]
    /\ UNCHANGED <<app, channels, workers>>
    /\ UNCHANGED nonbatch_vars

NextBatch == BatchList \/ BatchConvert \/ BatchReturn

SpecBatch == InitBatch /\ [][NextBatch]_vars

\* The names of the entries of the listing d
RECURSIVE Names(_)
Names(d) == IF d = <<>> THEN <<>> ELSE << Head(d).name >> \o Names(Tail(d))

\* C27: run_batch_conversion attempts every .akp file found in the directory
\* exactly once: a file whose conversion fails does not stop the files after
\* it, at the end success_count + error_count equals the number of .akp
\* files, the number of recorded error messages equals error_count, and the
\* batch returns Ok even when some or all files failed.
C27_BatchAttemptsAll ==
    /\ batch.pc = "loop" =>
          /\ batch.attempts = SubSeq(Names(AkpFiles(batch.directory)), 1, batch.i)
          /\ batch.success_count + batch.error_count = batch.i
          /\ Len(batch.errors) = batch.error_count
    /\ batch.pc = "returned" /\ batch.akp_files # <<>> =>
          /\ batch.attempts = Names(AkpFiles(batch.directory))
          /\ batch.success_count + batch.error_count = Len(AkpFiles(batch.directory))
          /\ Len(batch.errors) = batch.error_count
          /\ batch.result = "Ok"

\* A batch over three .akp files returned: the first file failed, the
\* second converted, the third failed
C27_Witness ==
    /\ batch.pc = "returned"
    /\ batch.result = "Ok"
    /\ Len(batch.akp_files) = 3
    /\ batch.attempts = << "bad.akp", "good.akp", "empty.akp" >>
    /\ batch.success_count = 1
    /\ batch.error_count = 2
    /\ batch.errors = << << "bad.akp", InvalidRiffHeader >>,
                         << "empty.akp", MissingRequiredChunk("keygroup") >> >>

----------------------------------------------------------------------------
(* The GUI: the egui frames of RustySamplersApp and the worker threads of   *)
(* start_conversion, which talk to the UI over mpsc channels.               *)
(*   channels[c].queue    : the messages sent and not yet received          *)
(*   channels[c].receiver : "held" by the app, or "dropped"                 *)
(*   channels[c].received : history, the messages update took from it       *)
(*   workers[w].pc = "started"  : before the send of Started                *)
(*                   "progress" : before the first Progress of file i + 1   *)
(*                   "convert"  : before convert_file, fs::write and the    *)
(*                                second Progress of file i + 1             *)
(*                   "complete" : after the loop, before the Completed      *)
(*                   "exited"   : the closure returned                      *)
(*   workers[w].final_successes and workers[w].sent are history: per file   *)
(*   whether conversion and write both succeeded, and the messages handed   *)
(*   to tx.send                                                             *)

MaxWorkers == 2

MaxSelected == 2

\* The files the dialog offers: one that convert_file accepts, one with a
\* wrong signature
GuiFilePool ==
    { DirEntry("good.akp", Some("akp"), ContainerHeader \o KgrpOf(<< ZoneOk >>)),
      DirEntry("bad.akp", Some("akp"), <<82, 73, 70, 88, 0, 0, 0, 0, 65, 80, 82, 71>>) }

\* What pick_files can return: distinct files in any order
Selections ==
    { d \in SeqsUpTo(GuiFilePool, MaxSelected) :
        /\ d # <<>>
        /\ \A i \in 1..Len(d), j \in 1..Len(d) : i # j => d[i] # d[j] }

\* Whether convert_file returns Ok, per file of the pool and format
ConvertIsOk ==
    [f \in GuiFilePool, fmt \in Formats |-> convert_file(f.data, fmt).kind = "Ok"]

Started(msg) == [kind |-> "Started", msg |-> msg, fraction |-> <<0, 1>>]

Progress(msg, num, den) == [kind |-> "Progress", msg |-> msg, fraction |-> <<num, den>>]

Completed(msg) == [kind |-> "Completed", msg |-> msg, fraction |-> <<0, 1>>]

\* The arm of update's match for the message m
Handle(a, m) ==
    IF m.kind = "Started"
        THEN [a EXCEPT !.conversion_status = m.msg, !.is_converting = TRUE]
    ELSE IF m.kind = "Progress"
        THEN [a EXCEPT !.conversion_status = m.msg]
    ELSE IF m.kind = "Completed"
        THEN [a EXCEPT !.conversion_status = m.msg, !.is_converting = FALSE]
    ELSE [a EXCEPT !.conversion_status = "Error: " \o m.msg, !.is_converting = FALSE]

RECURSIVE Drain(_, _)
\* update's loop over try_recv: the app after the messages ms
Drain(a, ms) == IF ms = <<>> THEN a ELSE Drain(Handle(a, Head(ms)), Tail(ms))

\* The enabling condition of the Convert button
can_convert(a) == a.selected_files # <<>> /\ ~a.is_converting

\* tx.send(m) on channel c: Err, ignored, when the receiver is gone
Send(chans, c, m) ==
    IF chans[c].receiver = "held" THEN [chans EXCEPT ![c].queue = Append(@, m)] ELSE chans

\* The thread start_conversion spawns, sending on channel c
NewWorker(a, c) ==
    [files |-> a.selected_files, format |-> a.output_format, tx |-> c, pc |-> "started",
     i |-> 0, final_successes |-> <<>>, sent |-> <<>>]

\* What the user does in a frame: nothing, a choice of files in the dialog,
\* a click on Clear Files, a click on Convert
UserInputs ==
    { [kind |-> k, files |-> <<>>] : k \in {"none", "clear", "convert"} }
    \cup { [kind |-> "pick", files |-> fs] : fs \in Selections }

\* One frame: update receives what the channel holds, then the widgets act
\* on the user's input
Update ==
    /\ \E input \in UserInputs :
           LET rx      == app.progress_receiver
               pending == IF IsSome(rx) THEN channels[rx[1]].queue ELSE <<>>
               a       == Drain(app, pending)
               chans   == IF IsSome(rx)
                          THEN [channels EXCEPT ![rx[1]].queue = <<>>,
                                                ![rx[1]].received = @ \o pending]
                          ELSE channels
           IN  IF input.kind = "none"
               THEN /\ app' = a
                    /\ channels' = chans
                    /\ workers' = workers
               ELSE IF input.kind = "pick"
               THEN /\ app' = [a EXCEPT !.selected_files = input.files,
                                        !.conversion_results = <<>>,
                                        !.conversion_status = ""]
                    /\ channels' = chans
                    /\ workers' = workers
               ELSE IF input.kind = "clear"
               THEN /\ a.selected_files # <<>>
                    /\ app' = [a EXCEPT !.selected_files = <<>>,
                                        !.conversion_results = <<>>,
                                        !.conversion_status = ""]
                    /\ channels' = chans
                    /\ workers' = workers
               ELSE /\ can_convert(a)
                    /\ Len(workers) < MaxWorkers
                    /\ LET c == Len(channels) + 1
                           dropped == IF IsSome(rx)
                                      THEN [chans EXCEPT ![rx[1]].receiver = "dropped",
                                                         ![rx[1]].queue = <<>>]
                                      ELSE chans
                       IN  /\ app' = [a EXCEPT !.progress_receiver = Some(c),
                                               !.conversion_results = <<>>]
                           /\ channels' = Append(dropped, [queue |-> <<>>, receiver |-> "held",
                                                           received |-> <<>>])
                           /\ workers' = Append(workers, NewWorker(a, c))
    /\ batch' = batch
    /\ UNCHANGED nonbatch_vars

\* The worker after tx.send(m), and the channels
Sends(w, m, next) ==
    /\ channels' = Send(channels, workers[w].tx, m)
    /\ workers' = [workers EXCEPT ![w] = [next EXCEPT !.sent = Append(@, m)]]

\* success_count of the closure: the files of the list whose extension is
\* "akp"
success_count(files) == Len(SelectSeq(files, LAMBDA f : f.ext = Some("akp")))

\* final_message of the closure
final_message(count, total) ==
    IF count = total
        THEN "All " \o ToString(total) \o " files converted successfully!"
    ELSE IF count > 0
        THEN ToString(count) \o " of " \o ToString(total) \o " files converted successfully"
    ELSE "No files were converted successfully"

\* One step of the thread w
WorkerStep(w) ==
    /\ w \in DOMAIN workers
    /\ LET me  == workers[w]
           n   == Len(me.files)
           f   == me.files[me.i + 1]
       IN  \/ /\ me.pc = "started"
              /\ Sends(w, Started("Starting conversion..."),
                       [me EXCEPT !.pc = IF n = 0 THEN "complete" ELSE "progress"])
           \/ /\ me.pc = "progress"
              /\ Sends(w, Progress("Converting " \o f.name \o " (" \o ToString(me.i + 1)
                                   \o "/" \o ToString(n) \o ")", me.i, n),
                       [me EXCEPT !.pc = "convert"])
           \/ /\ me.pc = "convert"
              /\ \E write_ok \in BOOLEAN :
                    LET success == ConvertIsOk[f, me.format]
                        final_success == success /\ write_ok
                    IN  Sends(w, Progress((IF success THEN "Converted "
                                           ELSE "Failed to convert ") \o f.name, me.i + 1, n),
                              [me EXCEPT !.i = @ + 1,
                                         !.final_successes = Append(@, final_success),
                                         !.pc = IF me.i + 1 < n THEN "progress"
                                                ELSE "complete"])
           \/ /\ me.pc = "complete"
              /\ Sends(w, Completed(final_message(success_count(me.files), n)),
                       [me EXCEPT !.pc = "exited"])
    /\ app' = app
    /\ batch' = batch
    /\ UNCHANGED nonbatch_vars

InitGui ==
    /\ NotCalled("Sfz")
    /\ CommandLineOnly

NextGui == Update \/ \E w \in 1..MaxWorkers : WorkerStep(w)

SpecGui == InitGui /\ [][NextGui]_vars

\* The frames keep running and every spawned thread keeps being scheduled
SpecGuiFair ==
    /\ InitGui
    /\ [][NextGui]_vars
    /\ WF_vars(Update)
    /\ \A w \in 1..MaxWorkers : WF_vars(WorkerStep(w))

\* The threads that have not returned
Running == { w \in DOMAIN workers : workers[w].pc # "exited" }

\* C28 as stated: at most one conversion worker thread is running at any
\* time: after start_conversion has spawned a worker the Convert button
\* cannot start another one until that worker has sent Completed and the UI
\* has processed it, under every interleaving of frames and worker sends.
C28_AsStated ==
    /\ Cardinality(Running) <= 1
    /\ \A w \in DOMAIN workers :
          w < Len(workers) =>
              \E k \in 1..Len(channels[w].received) :
                  channels[w].received[k].kind = "Completed"


\* The kind and the fraction of each message of ms
Outline(ms) == [k \in 1..Len(ms) |-> << ms[k].kind, ms[k].fraction >>]

RECURSIVE FileOutline(_, _)
\* The two Progress messages of each of the files i + 1 .. n
FileOutline(i, n) ==
    IF i >= n THEN <<>>
    ELSE << << "Progress", <<i, n>> >>, << "Progress", <<i + 1, n>> >> >> \o FileOutline(i + 1, n)

\* Started, two Progress messages per file, Completed
ExpectedOutline(n) ==
    << << "Started", <<0, 1>> >> >> \o FileOutline(0, n) \o << << "Completed", <<0, 1>> >> >>

\* update has taken the Completed message of the thread w from its channel
CompletedProcessed(w) ==
    /\ w \in DOMAIN channels
    /\ \E k \in 1..Len(channels[w].received) : channels[w].received[k].kind = "Completed"

\* C29 as stated: every started conversion eventually ends with
\* is_converting = false: the worker sends Started first, then two Progress
\* messages per file in file order, then Completed exactly once as its last
\* message, and, given that UI frames keep running, the UI eventually
\* processes Completed and re-enables the Convert button, whether the
\* individual file conversions succeed or fail.
C29_AsStated ==
    /\ [](\A w \in DOMAIN workers :
             LET me == workers[w]
                 expected == ExpectedOutline(Len(me.files))
             IN  /\ Len(me.sent) <= Len(expected)
                 /\ Outline(me.sent) = SubSeq(expected, 1, Len(me.sent))
                 /\ me.pc = "exited" => Len(me.sent) = Len(expected))
    /\ \A w \in 1..MaxWorkers :
          (w \in DOMAIN workers) ~> (CompletedProcessed(w) /\ ~app.is_converting)

\* The number of TRUE entries of the sequence bs
TrueCount(bs) == Len(SelectSeq(bs, LAMBDA b : b))

\* C30 as stated: the worker's final Completed message reports a number of
\* successfully converted files equal to the number of files whose
\* convert_file call and output write both succeeded; in particular it says
\* that all files were converted successfully only if none of them failed.
C30_AsStated ==
    \A w \in DOMAIN workers :
        LET me == workers[w]
        IN  me.pc = "exited" =>
                me.sent[Len(me.sent)] =
                    Completed(final_message(TrueCount(me.final_successes), Len(me.files)))

====
